---- MODULE Spec2Model ----
(***************************************************************************)
(* GhostDrive: the file index (crates/indexer/src/db.rs), the debounced   *)
(* filesystem watcher (crates/indexer/src/watcher.rs), the content node   *)
(* (crates/network/src/node.rs) and the host daemon                       *)
(* (crates/host/src/daemon.rs).                                           *)
(*                                                                         *)
(* Time is counted in units of 100ms in the watcher (the ticker period is *)
(* 200ms, the debounce window 500ms) and in seconds in the daemon.        *)
(***************************************************************************)
EXTENDS Integers, Sequences, FiniteSets, TLC

\* ------------------------------------------------------------------------
\* Option values: Some(x) is <<x>>, None is << >>.
None == << >>
Some(x) == <<x>>
IsSome(o) == o # None
Unwrap(o) == o[1]

\* ------------------------------------------------------------------------
\* Paths.  A path is a sequence of components, a component a sequence of
\* units; a unit is a character, or BadByte: a byte that is not valid UTF-8.
\* ReplChar is U+FFFD, the character to_string_lossy() puts in its place.
BadByte == "\\xFF"
ReplChar == "U+FFFD"

PA == << <<"w">>, <<"a", ".", "mp4">> >>
PB == << <<"w">>, <<"b">> >>
PHid == << <<"w">>, <<".", "h">> >>
PBad == << <<"w">>, <<".", BadByte>> >>
PRepl == << <<"w">>, <<".", ReplChar>> >>
PSub == << <<"w">>, <<"d">>, <<"c">> >>

Paths == {PA, PB, PHid, PBad, PRepl, PSub}

\* OsStr::to_str(): the string when every byte is valid UTF-8.
ToStr(comp) ==
    IF \E j \in DOMAIN comp : comp[j] = BadByte THEN None ELSE Some(comp)

\* Path::to_string_lossy(): every invalid byte becomes U+FFFD.
ToStringLossy(p) ==
    [i \in DOMAIN p |->
        [j \in DOMAIN p[i] |-> IF p[i][j] = BadByte THEN ReplChar ELSE p[i][j]]]

\* Path::file_name(): the last component.
FileNameOf(p) == IF Len(p) = 0 THEN None ELSE Some(p[Len(p)])

IsUtf8Path(p) == \A i \in DOMAIN p : IsSome(ToStr(p[i]))

\* The keys of the files table: path strings.
Keys == {ToStringLossy(p) : p \in Paths}

\* ------------------------------------------------------------------------
\* Value types (crates/core/src/types.rs).
\* File contents, their BLAKE3 digests (taken to be free of collisions) and
\* their lengths in bytes.
Contents == {"c1", "c2"}
Digests == {1, 2}
Blake3(c) == IF c = "c1" THEN 1 ELSE 2
SizeOf(c) == IF c = "c1" THEN 1 ELSE 2

\* blake3::Hash::to_hex().to_string(): the digest in hex.
ToHex(d) == IF d = 1 THEN "01" ELSE "02"

\* MediaHash: a string.
Hashes == {ToHex(d) : d \in Digests}
Sizes == {SizeOf(c) : c \in Contents}
MimeTypes == {"video/mp4", "application/octet-stream"}

\* mime_guess::from_path(path).first_or_octet_stream(): by extension.
MimeGuess(p) ==
    LET name == p[Len(p)]
    IN IF Len(name) >= 3 /\ name[Len(name) - 1] = "." /\ name[Len(name)] = "mp4"
       THEN "video/mp4" ELSE "application/octet-stream"

\* The paths the index API is called with: two valid ones and one that is
\* not valid UTF-8, whose lossy string is the second's.
IndexPaths == {PA, PRepl, PBad}

\* The metadata the index API is called with.
FileMetadata == [path : IndexPaths, hash : Hashes, size : Sizes,
                 mime_type : {"video/mp4"}, created_at : {0}]

\* bincode::serde::encode_to_vec(metadata): the fields in declaration order.
\* serde refuses a path that is not valid UTF-8.
BincodeEncode(m) ==
    IF IsUtf8Path(m.path)
    THEN Some(<<m.path, m.hash, m.size, m.mime_type, m.created_at>>)
    ELSE None

\* bincode::serde::decode_from_slice(bytes).
BincodeDecode(b) ==
    [path |-> b[1], hash |-> b[2], size |-> b[3],
     mime_type |-> b[4], created_at |-> b[5]]

\* ------------------------------------------------------------------------
\* The program's state.
VARIABLES
    files,        \* FILES_TABLE: path string -> Some(encoded metadata) | None
    hash_index,   \* HASH_INDEX: hash string -> Some(path string) | None
    last,         \* the index call that has just returned
    lastUpsert,   \* history: per path, the latest successful upsert not
                  \* followed by a remove of that path
    writer,       \* the caller holding the store's write transaction
    wtables,      \* the open write transaction's view of both tables
    call,         \* per concurrent caller: the index call it is in
    shadow,       \* history: both tables, each finished call applied whole
    ncalls,       \* calls started
    fs,           \* the filesystem: path -> Some(file) | None
    now,          \* the clock, in units of 100ms
    nfsops,       \* filesystem operations done
    wall,         \* the wall clock (SystemTime), in seconds
    birthtime,    \* the filesystem reports creation times
    roots,        \* the watch roots the notify watcher is subscribed to
    queue,        \* the watcher's event channel
    senders,      \* the live senders of the channel
    nextTick,     \* when the ticker fires next
    pending,      \* pending_updates: path -> Some(deadline) | None
    units,        \* the hashing units in flight
    nunits,       \* ticks that have dispatched a hashing unit
    wstate,       \* the watcher task: "running" or "stopped"
    cancelled,    \* the daemon's shutdown token
    burst,        \* history: per path, the current run of rapid events
    failed,       \* history: 0 no failure yet, 1 a hashing unit or an index
                  \* remove has failed, 2 the loop has handled an event since
    blobs,        \* the Node's blob store: the digests it holds
    reg,          \* the daemon's register_file call
    nregs,        \* register_file calls started
    hist,         \* history: per path, its latest registrations in a row
                  \* while its content stayed as it was
    keyfile,      \* <data_dir>/secret.key: Some(content) | None
    node,         \* the Node constructed last, and history: the
                  \* constructions so far
    coll,         \* history: the create_collection calls so far
    dop,          \* the daemon operation running (construction, share_folder)
    codec         \* a ticket, its encoding and what decode makes of a string

idxVars == <<files, hash_index>>
apiVars == <<last, lastUpsert>>
txnVars == <<writer, wtables, call, shadow, ncalls>>
envVars == <<fs, now, nfsops, wall, birthtime>>
watchVars == <<queue, senders, nextTick, pending, units, nunits, wstate,
               cancelled, burst, failed>>
daemonVars == <<blobs, reg, nregs>>
nodeVars == <<keyfile, node, coll>>
vars == <<files, hash_index, last, lastUpsert, writer, wtables, call, shadow,
          ncalls, fs, now, nfsops, wall, birthtime, roots, queue, senders,
          nextTick, pending, units, nunits, wstate, cancelled, burst, failed,
          blobs, reg, nregs, hist, keyfile, node, coll, dop, codec>>

\* What the steps of one part of the program leave alone.
notApi == <<txnVars, envVars, watchVars, daemonVars, roots, hist, nodeVars, dop,
           codec>>
notTxn == <<apiVars, envVars, watchVars, daemonVars, roots, hist, nodeVars, dop,
           codec>>
notWatch == <<apiVars, txnVars, daemonVars, roots, hist, nodeVars, dop, codec>>
notFs == <<apiVars, txnVars, daemonVars, roots, nodeVars, dop, codec>>
notReg == <<apiVars, txnVars, envVars, watchVars, nodeVars, dop, codec>>

\* FileIndex::open on a fresh store: both tables exist and are empty.
IndexInit ==
    /\ files = [k \in Keys |-> None]
    /\ hash_index = [h \in Hashes |-> None]

\* ------------------------------------------------------------------------
\* FileIndex (crates/indexer/src/db.rs), each write one transaction.

\* The tables after upsert_file(m) has committed.
\* (a variant that inserts only when the path has no record yet)
UpsertFilesKeepOld(f, m) ==
    IF IsSome(f[ToStringLossy(m.path)]) THEN f
    ELSE [f EXCEPT ![ToStringLossy(m.path)] = BincodeEncode(m)]
UpsertFiles(f, m) ==
    [f EXCEPT ![ToStringLossy(m.path)] = BincodeEncode(m)]

\* (a variant that leaves the reverse index alone)
UpsertHashNone(hi, m) == hi
\* (a variant that also clears the entries of the path's earlier hashes)
UpsertHashMoved(hi, m) ==
    [h \in DOMAIN hi |->
        IF h = m.hash THEN Some(ToStringLossy(m.path))
        ELSE IF hi[h] = Some(ToStringLossy(m.path)) THEN None ELSE hi[h]]
UpsertHash(hi, m) ==
    [hi EXCEPT ![m.hash] = Some(ToStringLossy(m.path))]

GetByPath(f, p) ==
    LET access == f[ToStringLossy(p)]
    IN IF IsSome(access) THEN Some(BincodeDecode(Unwrap(access))) ELSE None

GetByHash(f, hi, h) ==
    LET path_access == hi[h]
    IN IF IsSome(path_access) /\ IsSome(f[Unwrap(path_access)])
       THEN Some(BincodeDecode(Unwrap(f[Unwrap(path_access)])))
       ELSE None

\* remove_file(p): the hash read in the transaction, then both deletes.
HashToRemove(f, p) ==
    LET access == f[ToStringLossy(p)]
    IN IF IsSome(access) THEN Some(BincodeDecode(Unwrap(access)).hash) ELSE None

RemoveFiles(f, p) == [f EXCEPT ![ToStringLossy(p)] = None]

\* (a variant that leaves the reverse index alone)
RemoveHashKeep(f, hi, p) == hi
\* (a variant that, finding no record, clears every entry that names the path)
RemoveHashByPath(f, hi, p) ==
    LET h == HashToRemove(f, p)
    IN IF IsSome(h) THEN [hi EXCEPT ![Unwrap(h)] = None]
       ELSE [x \in DOMAIN hi |->
                IF hi[x] = Some(ToStringLossy(p)) THEN None ELSE hi[x]]
RemoveHash(f, hi, p) ==
    LET h == HashToRemove(f, p)
    IN IF IsSome(h) THEN [hi EXCEPT ![Unwrap(h)] = None] ELSE hi

\* list_all(): the decoded records, at most `limit` of them.
ListLimit == 10000
ListAll(f) ==
    LET recs == {BincodeDecode(Unwrap(f[k])) : k \in {x \in Keys : IsSome(f[x])}}
    IN IF Cardinality(recs) <= ListLimit THEN recs
       ELSE CHOOSE s \in SUBSET recs : Cardinality(s) = ListLimit

\* ------------------------------------------------------------------------
\* The index under concurrent callers, one store operation per step.
\* begin_write() waits for the store's single write transaction; a write
\* transaction works on its own view of the tables, which commit() publishes
\* and a drop without commit discards; begin_read() takes a snapshot of the
\* committed tables.

\* Who calls the index: the watcher loop (remove_file on a delete event), a
\* hashing unit and the daemon's register_file (upsert_file), and a reader.
Writers == {"watcher", "hasher", "daemon"}
Readers == {"reader"}
Callers == Writers \cup Readers

MaxCalls == 4

TxnPaths == {PA, PRepl}
TxnMetas == {m \in FileMetadata : m.path \in TxnPaths /\ m.size = 1}

\* The store operations of upsert_file and of remove_file, in program order.
\* (variants: each table written in a transaction of its own; the record
\* read before the write transaction begins)
UpsertProgramTwoTxn ==
    <<"begin_write", "insert_files", "commit",
      "begin_write", "insert_hash", "commit">>
UpsertProgram == <<"begin_write", "insert_files", "insert_hash", "commit">>

RemoveProgramReadFirst ==
    <<"get_files", "begin_write", "remove_files", "remove_hash", "commit">>
RemoveProgram ==
    <<"begin_write", "get_files", "remove_files", "remove_hash", "commit">>

\* get_by_path, get_by_hash and list_all: one read transaction each.
ReadProgram == <<"begin_read", "get">>

ProgramOf(op) ==
    CASE op = "upsert" -> UpsertProgram
      [] op = "remove" -> RemoveProgram
      [] OTHER -> ReadProgram

Tables(f, hi) == [f |-> f, hi |-> hi]

Idle == [op |-> "idle", pc |-> 0, meta |-> None, path |-> None, hash |-> None,
         hash_to_remove |-> None, snap |-> None, result |-> None]

TxnInit ==
    /\ writer = None
    /\ wtables = None
    /\ call = [c \in Callers |-> Idle]
    /\ shadow = Tables([k \in Keys |-> None], [h \in Hashes |-> None])
    /\ ncalls = 0

Step(c) == ProgramOf(call[c].op)[call[c].pc]
AtStep(c, name) ==
    /\ call[c].op # "idle"
    /\ call[c].pc <= Len(ProgramOf(call[c].op))
    /\ Step(c) = name
Advance(c) == [call[c] EXCEPT !.pc = @ + 1]

\* A caller enters upsert_file(m), remove_file(p) or a lookup.
StartUpsert(c, m) ==
    /\ c \in {"hasher", "daemon"}
    /\ call[c].op = "idle" /\ ncalls < MaxCalls
    /\ IsSome(BincodeEncode(m))
    /\ call' = [call EXCEPT ![c] = [Idle EXCEPT !.op = "upsert", !.pc = 1,
                                                !.meta = Some(m)]]
    /\ ncalls' = ncalls + 1
    /\ UNCHANGED <<files, hash_index, writer, wtables, shadow>>
    /\ UNCHANGED notTxn

StartRemove(c, p) ==
    /\ c = "watcher"
    /\ call[c].op = "idle" /\ ncalls < MaxCalls
    /\ call' = [call EXCEPT ![c] = [Idle EXCEPT !.op = "remove", !.pc = 1,
                                                !.path = Some(p)]]
    /\ ncalls' = ncalls + 1
    /\ UNCHANGED <<files, hash_index, writer, wtables, shadow>>
    /\ UNCHANGED notTxn

StartRead(c, op, p, h) ==
    /\ c \in Readers
    /\ call[c].op = "idle" /\ ncalls < MaxCalls
    /\ call' = [call EXCEPT ![c] = [Idle EXCEPT !.op = op, !.pc = 1,
                                                !.path = Some(p), !.hash = Some(h)]]
    /\ ncalls' = ncalls + 1
    /\ UNCHANGED <<files, hash_index, writer, wtables, shadow>>
    /\ UNCHANGED notTxn

\* begin_write(): granted when no write transaction is open.
BeginWrite(c) ==
    /\ AtStep(c, "begin_write")
    /\ writer = None
    /\ writer' = Some(c)
    /\ wtables' = Some(Tables(files, hash_index))
    /\ call' = [call EXCEPT ![c] = Advance(c)]
    /\ UNCHANGED <<files, hash_index, shadow, ncalls>>
    /\ UNCHANGED notTxn

\* The tables a caller's table operation works on: its write transaction's
\* view, or the committed tables when it has none open.
View(c) == IF writer = Some(c) THEN Unwrap(wtables) ELSE Tables(files, hash_index)

InsertFiles(c) ==
    /\ AtStep(c, "insert_files")
    /\ writer = Some(c)
    /\ wtables' = Some([View(c) EXCEPT !.f = UpsertFiles(@, Unwrap(call[c].meta))])
    /\ call' = [call EXCEPT ![c] = Advance(c)]
    /\ UNCHANGED <<files, hash_index, writer, shadow, ncalls>>
    /\ UNCHANGED notTxn

InsertHash(c) ==
    /\ AtStep(c, "insert_hash")
    /\ writer = Some(c)
    /\ wtables' = Some([View(c) EXCEPT !.hi = UpsertHash(@, Unwrap(call[c].meta))])
    /\ call' = [call EXCEPT ![c] = Advance(c)]
    /\ UNCHANGED <<files, hash_index, writer, shadow, ncalls>>
    /\ UNCHANGED notTxn

\* remove_file's read of the stored record.
GetFiles(c) ==
    /\ AtStep(c, "get_files")
    /\ call' = [call EXCEPT ![c] =
                  [Advance(c) EXCEPT !.hash_to_remove =
                      Some(HashToRemove(View(c).f, Unwrap(call[c].path)))]]
    /\ UNCHANGED <<files, hash_index, writer, wtables, shadow, ncalls>>
    /\ UNCHANGED notTxn

DeleteFiles(c) ==
    /\ AtStep(c, "remove_files")
    /\ writer = Some(c)
    /\ wtables' = Some([View(c) EXCEPT !.f = RemoveFiles(@, Unwrap(call[c].path))])
    /\ call' = [call EXCEPT ![c] = Advance(c)]
    /\ UNCHANGED <<files, hash_index, writer, shadow, ncalls>>
    /\ UNCHANGED notTxn

DeleteHash(c) ==
    /\ AtStep(c, "remove_hash")
    /\ writer = Some(c)
    /\ LET h == Unwrap(call[c].hash_to_remove)
       IN wtables' = Some([View(c) EXCEPT !.hi =
                              IF IsSome(h) THEN [@ EXCEPT ![Unwrap(h)] = None] ELSE @])
    /\ call' = [call EXCEPT ![c] = Advance(c)]
    /\ UNCHANGED <<files, hash_index, writer, shadow, ncalls>>
    /\ UNCHANGED notTxn

\* The call applied whole to tables t.
WholeCall(c, t) ==
    IF call[c].op = "upsert"
    THEN Tables(UpsertFiles(t.f, Unwrap(call[c].meta)),
                UpsertHash(t.hi, Unwrap(call[c].meta)))
    ELSE Tables(RemoveFiles(t.f, Unwrap(call[c].path)),
                RemoveHash(t.f, t.hi, Unwrap(call[c].path)))

\* commit(): the transaction's view becomes the committed tables; the call
\* returns Ok after its last commit.
Commit(c) ==
    /\ AtStep(c, "commit")
    /\ writer = Some(c)
    /\ files' = Unwrap(wtables).f
    /\ hash_index' = Unwrap(wtables).hi
    /\ writer' = None
    /\ wtables' = None
    /\ IF call[c].pc = Len(ProgramOf(call[c].op))
       THEN /\ call' = [call EXCEPT ![c] = Idle]
            /\ shadow' = WholeCall(c, shadow)
       ELSE /\ call' = [call EXCEPT ![c] = Advance(c)]
            /\ UNCHANGED shadow
    /\ UNCHANGED ncalls
    /\ UNCHANGED notTxn

\* A store operation of a write call returns Err: the call returns Err and
\* its transaction, if open, is dropped uncommitted.
StoreErr(c) ==
    /\ c \in Writers
    /\ call[c].op # "idle"
    /\ call' = [call EXCEPT ![c] = Idle]
    /\ IF writer = Some(c)
       THEN writer' = None /\ wtables' = None
       ELSE UNCHANGED <<writer, wtables>>
    /\ UNCHANGED <<files, hash_index, shadow, ncalls>>
    /\ UNCHANGED notTxn

\* begin_read(): a snapshot of the committed tables (and, for the history,
\* of the tables with every finished call applied whole).
BeginRead(c) ==
    /\ AtStep(c, "begin_read")
    /\ call' = [call EXCEPT ![c] =
                  [Advance(c) EXCEPT !.snap = Some(<<Tables(files, hash_index), shadow>>)]]
    /\ UNCHANGED <<files, hash_index, writer, wtables, shadow, ncalls>>
    /\ UNCHANGED notTxn

ReadResult(op, t, p, h) ==
    CASE op = "get_by_path" -> <<GetByPath(t.f, p)>>
      [] op = "get_by_hash" -> <<GetByHash(t.f, t.hi, h)>>
      [] OTHER -> <<ListAll(t.f)>>

\* The lookup's table reads, all in the read transaction's snapshot.
ReadGet(c) ==
    /\ AtStep(c, "get")
    /\ call' = [call EXCEPT ![c] =
                  [Advance(c) EXCEPT !.result =
                      Some(ReadResult(call[c].op, Unwrap(call[c].snap)[1],
                                      Unwrap(call[c].path), Unwrap(call[c].hash)))]]
    /\ UNCHANGED <<files, hash_index, writer, wtables, shadow, ncalls>>
    /\ UNCHANGED notTxn

\* The lookup returns.
ReadReturn(c) ==
    /\ c \in Readers
    /\ call[c].op # "idle" /\ call[c].pc > Len(ProgramOf(call[c].op))
    /\ call' = [call EXCEPT ![c] = Idle]
    /\ UNCHANGED <<files, hash_index, writer, wtables, shadow, ncalls>>
    /\ UNCHANGED notTxn

TxnNext ==
    \/ \E c \in Callers, m \in TxnMetas : StartUpsert(c, m)
    \/ \E c \in Callers, p \in TxnPaths : StartRemove(c, p)
    \/ \E c \in Callers, op \in {"get_by_path", "get_by_hash", "list_all"},
          p \in {PA}, h \in {ToHex(1)} : StartRead(c, op, p, h)
    \/ \E c \in Callers : BeginWrite(c)
    \/ \E c \in Callers : InsertFiles(c)
    \/ \E c \in Callers : InsertHash(c)
    \/ \E c \in Callers : GetFiles(c)
    \/ \E c \in Callers : DeleteFiles(c)
    \/ \E c \in Callers : DeleteHash(c)
    \/ \E c \in Callers : Commit(c)
    \/ \E c \in Callers : StoreErr(c)
    \/ \E c \in Callers : BeginRead(c)
    \/ \E c \in Callers : ReadGet(c)
    \/ \E c \in Callers : ReadReturn(c)

\* ------------------------------------------------------------------------
\* The index driven through its API by one caller.

NoCall == [op |-> "none", path |-> None, meta |-> None, prior |-> None, ok |-> TRUE]

ApiInit ==
    /\ last = NoCall
    /\ lastUpsert = [p \in Paths |-> None]

\* upsert_file(m) returns Ok: the serialization succeeded and the
\* transaction committed.
UpsertOk(m) ==
    /\ IsSome(BincodeEncode(m))
    /\ files' = UpsertFiles(files, m)
    /\ hash_index' = UpsertHash(hash_index, m)
    /\ last' = [op |-> "upsert", path |-> Some(m.path), meta |-> Some(m),
                prior |-> GetByPath(files, m.path), ok |-> TRUE]
    /\ lastUpsert' = [lastUpsert EXCEPT ![m.path] = Some(m)]
    /\ UNCHANGED notApi

\* upsert_file(m) returns Err: serialization error, or the store refused
\* begin_write / open_table / insert / commit; nothing is committed.
UpsertErr(m) ==
    /\ last' = [op |-> "upsert", path |-> Some(m.path), meta |-> Some(m),
                prior |-> GetByPath(files, m.path), ok |-> FALSE]
    /\ UNCHANGED <<files, hash_index, lastUpsert>>
    /\ UNCHANGED notApi

\* remove_file(p) returns Ok.
RemoveOk(p) ==
    /\ files' = RemoveFiles(files, p)
    /\ hash_index' = RemoveHash(files, hash_index, p)
    /\ last' = [op |-> "remove", path |-> Some(p), meta |-> None,
                prior |-> GetByPath(files, p), ok |-> TRUE]
    /\ lastUpsert' = [lastUpsert EXCEPT ![p] = None]
    /\ UNCHANGED notApi

\* remove_file(p) returns Err: the store refused a step; nothing is committed.
RemoveErr(p) ==
    /\ last' = [op |-> "remove", path |-> Some(p), meta |-> None,
                prior |-> GetByPath(files, p), ok |-> FALSE]
    /\ UNCHANGED <<files, hash_index, lastUpsert>>
    /\ UNCHANGED notApi

IndexNext ==
    \/ \E m \in FileMetadata : UpsertOk(m)
    \/ \E m \in FileMetadata : UpsertErr(m)
    \/ \E p \in IndexPaths : RemoveOk(p)
    \/ \E p \in IndexPaths : RemoveErr(p)

\* ------------------------------------------------------------------------
\* The filesystem and the clock.

\* A regular file: its content and its creation time in seconds, None on a
\* filesystem that reports no creation time.
File(c, bt) == [content |-> c, btime |-> bt]

\* A file created at wall-clock second t.
NewFile(c, t) == File(c, IF birthtime THEN Some(t) ELSE None)

\* metadata.created().unwrap_or(SystemTime::now())
\*     .duration_since(UNIX_EPOCH).unwrap_or_default().as_secs()
CreatedAt(file, t) == IF IsSome(file.btime) THEN Unwrap(file.btime) ELSE t

MaxTime == 6
MaxWall == 1
MaxFsOps == 3

\* No registration of the path counted; dirty: the content changed while a
\* register_file call of the path was running.
NoHist == [n |-> 0, dirty |-> FALSE, first |-> None, second |-> None]
HistAfterWrite(p) ==
    [hist EXCEPT ![p] = [NoHist EXCEPT !.dirty = (reg.pc # 0 /\ reg.path = Some(p))]]

\* ------------------------------------------------------------------------
\* FileWatcher (crates/indexer/src/watcher.rs).

TickInterval == 2
Debounce == 5
MaxQueue == 2

\* The paths of the files there can be, all in the directory /w.
FsPaths == {PA, PHid, PBad}

FsEvent(kind, paths) == [type |-> "fs", kind |-> kind, paths |-> paths]
ScanTick == [type |-> "tick", kind |-> "tick", paths |-> << >>]

\* watcher.watch(path, RecursiveMode::Recursive): the path lies under a
\* watch root.
UnderRoot(p) == p[1] \in roots

\* The file name begins with '.'.
StartsWithDot(p) ==
    IsSome(FileNameOf(p)) /\ Len(Unwrap(FileNameOf(p))) > 0
       /\ Unwrap(FileNameOf(p))[1] = "."

\* should_ignore(path)
ShouldIgnore(p) ==
    LET name == FileNameOf(p)
    IN IF IsSome(name)
       THEN LET s == ToStr(Unwrap(name))
            IN IF IsSome(s)
               THEN Len(Unwrap(s)) > 0 /\ Unwrap(s)[1] = "."
               ELSE FALSE
       ELSE FALSE

\* Instant::now() + debounce
\* (a variant without the debounce window)
DeadlineNoDebounce(t) == t
Deadline(t) == t + Debounce

\* now >= *deadline
\* (a variant that takes every pending path)
DueAlways(t, deadline) == TRUE
Due(t, deadline) == t >= deadline

\* pending.insert(path, deadline): the path's entry, if any, is replaced.
\* (a variant that keeps the deadline the path already has)
PendingInsertedIfAbsent(pend, p, d) ==
    IF IsSome(pend[p]) THEN pend ELSE [pend EXCEPT ![p] = Some(d)]
PendingInserted(pend, p, d) == [pend EXCEPT ![p] = Some(d)]

\* pending.remove(&path) on a delete event
\* (a variant that leaves the path pending)
PendingKept(pend, p) == pend
PendingRemoved(pend, p) == [pend EXCEPT ![p] = None]

\* What handle_fs_event has done so far: the pending map, both tables and
\* whether the loop goes on.
HandlerState(pend, f, hi, alive) ==
    [pending |-> pend, f |-> f, hi |-> hi, alive |-> alive, failed |-> FALSE]

\* index.remove_file(&path) returned Err: logged, the loop goes on.
\* (a variant that returns the error from the loop)
RemoveErrorReturned(st) == [st EXCEPT !.alive = FALSE, !.failed = TRUE]
RemoveErrorLogged(st) == [st EXCEPT !.failed = TRUE]

\* The body of `for path in event.paths`, at time t; rmfail: the index
\* remove of this path fails.
HandlePath(st, kind, p, rmfail, t) ==
    IF ShouldIgnore(p) THEN st
    ELSE IF kind \in {"create", "modify"}
         THEN [st EXCEPT !.pending = PendingInserted(@, p, Deadline(t))]
    ELSE IF kind = "remove"
         THEN LET st1 == [st EXCEPT !.pending = PendingRemoved(@, p)]
              IN IF rmfail THEN RemoveErrorLogged(st1)
                 ELSE [st1 EXCEPT !.f = RemoveFiles(st.f, p),
                                  !.hi = RemoveHash(st.f, st.hi, p)]
    ELSE st

\* handle_fs_event from the i-th path of the event on; rmfails: the positions
\* whose index remove fails.
RECURSIVE HandlePathsFrom(_, _, _, _, _)
HandlePathsFrom(st, ev, i, rmfails, t) ==
    IF i > Len(ev.paths) \/ ~st.alive THEN st
    ELSE HandlePathsFrom(HandlePath(st, ev.kind, ev.paths[i], i \in rmfails, t),
                         ev, i + 1, rmfails, t)

\* History: the run of rapid events of a path.  n: its create/modify events
\* so far (counted to 2), each handled less than the debounce window after
\* the one before; last: when the latest was handled; disp: hashing units
\* dispatched since its first event; ups: upserts by those units; del: a
\* delete event ended it (1), the path then pending (2) and indexed (3).
NoBurst == [n |-> 0, last |-> 0, disp |-> 0, ups |-> 0, del |-> 0]
BurstAfterEvent(b, t) ==
    IF b.n = 0 \/ t - b.last >= Debounce
    THEN [n |-> 1, last |-> t, disp |-> 0, ups |-> 0, del |-> 0]
    ELSE [b EXCEPT !.n = 2, !.last = t]
BurstAfterDelete(pend, f, p) ==
    [NoBurst EXCEPT !.del = IF IsSome(pend[p])
                            THEN (IF IsSome(GetByPath(f, p)) THEN 3 ELSE 2)
                            ELSE 1]

InEvent(ev, p) == \E i \in DOMAIN ev.paths : ev.paths[i] = p

WatcherInit ==
    /\ queue = << >>
    /\ senders = {"notify", "ticker"}
    /\ nextTick = 0
    /\ pending = [p \in FsPaths |-> None]
    /\ units = {}
    /\ nunits = 0
    /\ wstate = "running"
    /\ cancelled = FALSE
    /\ burst = [p \in FsPaths |-> NoBurst]
    /\ failed = 0

\* The notify handler: tx_clone.send(WatcherEvent::FileSystem(event)); the
\* send is dropped once the watcher is gone.
Notify(ev) ==
    IF "notify" \in senders /\ \E i \in DOMAIN ev.paths : UnderRoot(ev.paths[i])
    THEN Len(queue) < MaxQueue /\ queue' = Append(queue, ev)
    ELSE UNCHANGED queue

\* A file is written: created, or modified in place.
FsWrite(p, c) ==
    /\ nfsops < MaxFsOps
    /\ ~(IsSome(fs[p]) /\ Unwrap(fs[p]).content = c)
    /\ fs' = [fs EXCEPT ![p] =
                 IF IsSome(@) THEN Some(File(c, Unwrap(@).btime))
                 ELSE Some(NewFile(c, wall))]
    /\ Notify(FsEvent(IF IsSome(fs[p]) THEN "modify" ELSE "create", <<p>>))
    /\ nfsops' = nfsops + 1
    /\ hist' = HistAfterWrite(p)
    /\ UNCHANGED <<now, wall, birthtime, senders, nextTick, pending, units,
                   nunits, wstate, cancelled, burst, failed, files, hash_index>>
    /\ UNCHANGED notFs

\* A file is deleted.
FsRemove(p) ==
    /\ nfsops < MaxFsOps
    /\ IsSome(fs[p])
    /\ fs' = [fs EXCEPT ![p] = None]
    /\ Notify(FsEvent("remove", <<p>>))
    /\ nfsops' = nfsops + 1
    /\ hist' = HistAfterWrite(p)
    /\ UNCHANGED <<now, wall, birthtime, senders, nextTick, pending, units,
                   nunits, wstate, cancelled, burst, failed, files, hash_index>>
    /\ UNCHANGED notFs

\* A file is opened or read: an event of another kind (EventKind::Access).
FsAccess(p) ==
    /\ nfsops < MaxFsOps
    /\ IsSome(fs[p])
    /\ "notify" \in senders /\ UnderRoot(p)
    /\ Notify(FsEvent("access", <<p>>))
    /\ nfsops' = nfsops + 1
    /\ UNCHANGED <<fs, now, wall, birthtime, senders, nextTick, pending, units, nunits, wstate,
                   cancelled, burst, failed, files, hash_index>>
    /\ UNCHANGED notWatch

\* 100ms pass.  The ticker is punctual: a tick that is due is sent first.
AdvanceTime ==
    /\ now < MaxTime
    /\ ~("ticker" \in senders /\ now >= nextTick)
    /\ now' = now + 1
    /\ UNCHANGED <<fs, nfsops, wall, birthtime, files, hash_index>>
    /\ UNCHANGED watchVars
    /\ UNCHANGED notWatch

\* The ticker task: every 200ms it sends ScanTick, the first at once.
TickerFire ==
    /\ "ticker" \in senders
    /\ now >= nextTick
    /\ Len(queue) < MaxQueue
    /\ queue' = Append(queue, ScanTick)
    /\ nextTick' = nextTick + TickInterval
    /\ UNCHANGED <<senders, pending, units, nunits, wstate, cancelled, burst,
                   failed, files, hash_index>>
    /\ UNCHANGED envVars
    /\ UNCHANGED notWatch

\* run(): recv() yields WatcherEvent::FileSystem; handle_fs_event.
HandleFsEvent(rmfails) ==
    /\ wstate = "running"
    /\ queue # << >>
    /\ Head(queue).type = "fs"
    /\ rmfails \subseteq (IF Head(queue).kind = "remove"
                          THEN {i \in DOMAIN Head(queue).paths :
                                   ~ShouldIgnore(Head(queue).paths[i])}
                          ELSE {})
    /\ LET ev == Head(queue)
           st == HandlePathsFrom(HandlerState(pending, files, hash_index, TRUE),
                                 ev, 1, rmfails, now)
       IN /\ pending' = st.pending
          /\ files' = st.f
          /\ hash_index' = st.hi
          /\ wstate' = IF st.alive THEN "running" ELSE "stopped"
          /\ burst' = [p \in FsPaths |->
                         IF ~InEvent(ev, p) \/ ShouldIgnore(p) THEN burst[p]
                         ELSE IF ev.kind \in {"create", "modify"}
                              THEN BurstAfterEvent(burst[p], now)
                         ELSE IF ev.kind = "remove"
                              THEN BurstAfterDelete(pending, files, p)
                         ELSE burst[p]]
          /\ units' = {[u EXCEPT !.cur =
                           IF burst'[u.path] = burst[u.path] \/ burst'[u.path].n = 2
                           THEN @ ELSE FALSE] : u \in units}
          /\ failed' = IF st.failed THEN 1 ELSE IF failed = 1 THEN 2 ELSE failed
    /\ queue' = Tail(queue)
    /\ UNCHANGED <<senders, nextTick, nunits, cancelled>>
    /\ UNCHANGED envVars
    /\ UNCHANGED notWatch

\* A hashing unit as process_pending spawns it; n: the dispatching tick.
NewUnit(n, p) ==
    [id |-> n, path |-> p, pc |-> "exists", size |-> 0, created |-> 0,
     hash |-> None, cur |-> TRUE]

\* run(): recv() yields WatcherEvent::ScanTick; process_pending.
HandleTick ==
    /\ wstate = "running"
    /\ queue # << >>
    /\ Head(queue).type = "tick"
    /\ LET to_process == {p \in FsPaths :
                            IsSome(pending[p]) /\ Due(now, Unwrap(pending[p]))}
       IN /\ pending' = [p \in FsPaths |->
                           IF p \in to_process THEN None ELSE pending[p]]
          /\ units' = units \cup {NewUnit(nunits + 1, p) : p \in to_process}
          /\ nunits' = IF to_process = {} THEN nunits ELSE nunits + 1
          /\ burst' = [p \in FsPaths |->
                         IF p \in to_process
                         THEN [burst[p] EXCEPT !.disp = @ + 1] ELSE burst[p]]
    /\ queue' = Tail(queue)
    /\ failed' = IF failed = 1 THEN 2 ELSE failed
    /\ UNCHANGED <<senders, nextTick, wstate, cancelled, files, hash_index>>
    /\ UNCHANGED envVars
    /\ UNCHANGED notWatch

\* Path::is_file(): a regular file is at the path (a directory is not one).
IsRegularFile(tree, p) == p \in DOMAIN tree /\ IsSome(tree[p])

\* `return Ok(())` for a path that is gone: nothing is logged.
\* (a variant that returns the error of the missing file)
SkipMissingErr(f) == 1
SkipMissing(f) == f

\* process_file_blocking: `!path.exists() || !path.is_file()`.
UnitExists(u) ==
    /\ u \in units /\ u.pc = "exists"
    /\ units' = IF IsRegularFile(fs, u.path)
                THEN (units \ {u}) \cup {[u EXCEPT !.pc = "stat"]}
                ELSE units \ {u}
    /\ failed' = IF IsRegularFile(fs, u.path) THEN failed ELSE SkipMissing(failed)
    /\ UNCHANGED <<queue, senders, nextTick, pending, nunits, wstate,
                   cancelled, burst, files, hash_index>>
    /\ UNCHANGED envVars
    /\ UNCHANGED notWatch

\* fs::metadata(&path): the size and the creation time.
UnitStat(u) ==
    /\ u \in units /\ u.pc = "stat"
    /\ IsSome(fs[u.path])
    /\ units' = (units \ {u}) \cup
                   {[u EXCEPT !.pc = "read",
                              !.size = SizeOf(Unwrap(fs[u.path]).content),
                              !.created = CreatedAt(Unwrap(fs[u.path]), wall)]}
    /\ UNCHANGED <<queue, senders, nextTick, pending, nunits, wstate,
                   cancelled, burst, failed, files, hash_index>>
    /\ UNCHANGED envVars
    /\ UNCHANGED notWatch

\* File::open, io::copy into the hasher, finalize, to_hex.
UnitRead(u) ==
    /\ u \in units /\ u.pc = "read"
    /\ IsSome(fs[u.path])
    /\ units' = (units \ {u}) \cup
                   {[u EXCEPT !.pc = "upsert",
                              !.hash = Some(ToHex(Blake3(Unwrap(fs[u.path]).content)))]}
    /\ UNCHANGED <<queue, senders, nextTick, pending, nunits, wstate,
                   cancelled, burst, failed, files, hash_index>>
    /\ UNCHANGED envVars
    /\ UNCHANGED notWatch

UnitMeta(u) ==
    [path |-> u.path, hash |-> Unwrap(u.hash), size |-> u.size,
     mime_type |-> MimeGuess(u.path), created_at |-> u.created]

\* index.upsert_file(&meta) returns Ok.
UnitUpsert(u) ==
    /\ u \in units /\ u.pc = "upsert"
    /\ IsSome(BincodeEncode(UnitMeta(u)))
    /\ files' = UpsertFiles(files, UnitMeta(u))
    /\ hash_index' = UpsertHash(hash_index, UnitMeta(u))
    /\ units' = units \ {u}
    /\ burst' = IF u.cur THEN [burst EXCEPT ![u.path].ups = @ + 1] ELSE burst
    /\ UNCHANGED <<queue, senders, nextTick, pending, nunits, wstate,
                   cancelled, failed>>
    /\ UNCHANGED envVars
    /\ UNCHANGED notWatch

\* process_file_blocking returns Err (the file vanished or is unreadable,
\* the path does not serialize, the store refuses): the closure logs
\* "Failed to process file" and ends.
UnitErr(u) ==
    /\ u \in units /\ u.pc \in {"stat", "read", "upsert"}
    /\ units' = units \ {u}
    /\ failed' = 1
    /\ UNCHANGED <<queue, senders, nextTick, pending, nunits, wstate,
                   cancelled, burst, files, hash_index>>
    /\ UNCHANGED envVars
    /\ UNCHANGED notWatch

\* HostDaemon::drop: shutdown_token.cancel().
Cancel ==
    /\ ~cancelled
    /\ cancelled' = TRUE
    /\ UNCHANGED <<queue, senders, nextTick, pending, units, nunits, wstate,
                   burst, failed, files, hash_index>>
    /\ UNCHANGED envVars
    /\ UNCHANGED notWatch

\* recv() yields None: every sender is gone.
QueueClosed == senders = {} /\ queue = << >>

\* The task spawned in HostDaemon::new ends when its select! finds the token
\* cancelled or run() returned.
\* (a variant that runs the loop without the token)
StopRequestedNoToken == QueueClosed
StopRequested == cancelled \/ QueueClosed

\* The hashing units are detached spawn_blocking tasks: nothing aborts them
\* when the watcher is dropped.
\* (a variant that aborts them)
UnitsAborted(us) == {}
UnitsAfterStop(us) == us

\* The watcher task ends: select! takes the cancelled() branch, or the
\* `while let` loop ends.  The watcher is dropped, and with it the receiver,
\* the notify handler and the pending map; the ticker's next send fails.
WatcherStop ==
    /\ wstate = "running"
    /\ StopRequested
    /\ wstate' = "stopped"
    /\ queue' = << >>
    /\ senders' = {}
    /\ pending' = [p \in FsPaths |-> None]
    /\ units' = UnitsAfterStop(units)
    /\ UNCHANGED <<nextTick, nunits, cancelled, burst, failed,
                   files, hash_index>>
    /\ UNCHANGED envVars
    /\ UNCHANGED notWatch

\* What is written to each path.
ContentsFor(p) == IF p = PA THEN Contents ELSE {"c1"}

WatcherNext ==
    \/ \E p \in FsPaths : \E c \in ContentsFor(p) : FsWrite(p, c)
    \/ \E p \in FsPaths : FsRemove(p)
    \/ \E p \in {PA} : FsAccess(p)
    \/ AdvanceTime
    \/ TickerFire
    \/ \E rmfails \in SUBSET {1} : HandleFsEvent(rmfails)
    \/ HandleTick
    \/ \E u \in units : UnitExists(u)
    \/ \E u \in units : UnitStat(u)
    \/ \E u \in units : UnitRead(u)
    \/ \E u \in units : UnitUpsert(u)
    \/ \E u \in units : UnitErr(u)
    \/ Cancel
    \/ WatcherStop

\* The files there are when the watcher starts, all of them indexed.
EnvInit ==
    /\ fs \in [FsPaths -> {None, Some(File("c1", Some(0)))}]
    /\ fs[PBad] = None
    /\ now = 0
    /\ nfsops = 0
    /\ wall = 0
    /\ birthtime = TRUE

IndexedAtStart ==
    /\ files = [k \in Keys |->
                  IF \E p \in FsPaths : ToStringLossy(p) = k /\ IsSome(fs[p])
                  THEN LET p == CHOOSE q \in FsPaths : ToStringLossy(q) = k
                       IN BincodeEncode([path |-> p, hash |-> ToHex(Blake3("c1")),
                                         size |-> SizeOf("c1"),
                                         mime_type |-> MimeGuess(p), created_at |-> 0])
                  ELSE None]
    /\ hash_index = [h \in Hashes |->
                       IF h = ToHex(Blake3("c1")) /\ IsSome(fs[PA])
                       THEN Some(ToStringLossy(PA)) ELSE None]
    /\ blobs = {Blake3(Unwrap(fs[p]).content) : p \in {q \in FsPaths : IsSome(fs[q])}}

\* ------------------------------------------------------------------------
\* StreamNode (crates/network/src/node.rs) and HostDaemon
\* (crates/host/src/daemon.rs).

MaxRegs == 3

\* The paths register_file is called with.
RegPaths == {PA, PBad}

\* MediaHash(hash.to_string()): iroh_blobs::Hash displays as lower-case hex.
HashToString(d) == ToHex(d)

\* store.add_path_with_opts(options) returned Ok: the store holds the blob of
\* the file's content under its digest, and outcome.hash is that digest.
AddPath(store, file) ==
    [store |-> store \cup {Blake3(file.content)}, hash |-> Blake3(file.content)]

\* The stages of register_file, in order.
\* (a variant that updates the index before the import)
RegisterProgramIndexFirst == <<"metadata", "upsert", "import">>
RegisterProgram == <<"import", "metadata", "upsert">>

\* No register_file call running; trace: the stages the latest call went
\* through and how each ended; tables0, blobs0: both tables and the blob
\* store when it started.
NoReg ==
    [pc |-> 0, path |-> None, hash |-> None, size |-> 0, created |-> 0,
     trace |-> << >>, tables0 |-> None, blobs0 |-> None]

RegAt(stage) ==
    reg.pc \in DOMAIN RegisterProgram /\ RegisterProgram[reg.pc] = stage

\* The call goes on to its next stage, or returns Ok(hash) after the last.
RegOk(r, stage) ==
    [r EXCEPT !.pc = IF r.pc = Len(RegisterProgram) THEN 0 ELSE r.pc + 1,
              !.trace = Append(@, <<stage, "ok">>)]

\* `?`: the call returns the error.
RegErr(r, stage) == [r EXCEPT !.pc = 0, !.trace = Append(@, <<stage, "err">>)]

\* The call has returned: a content change during it is forgotten.
HistAfterReturn(h, r) ==
    IF r.pc = 0 THEN [h EXCEPT ![Unwrap(r.path)].dirty = FALSE] ELSE h

DaemonIdle == reg = NoReg /\ nregs = 0 /\ hist = [p \in FsPaths |-> NoHist]

\* register_file(path) is entered.
RegisterCall(p) ==
    /\ reg.pc = 0
    /\ reg' = [NoReg EXCEPT !.pc = 1, !.path = Some(p),
                            !.tables0 = Some(Tables(files, hash_index)),
                            !.blobs0 = Some(blobs)]
    /\ nregs' = nregs + 1
    /\ hist' = [q \in DOMAIN hist |-> IF q = p THEN hist[q] ELSE NoHist]

\* register_file(path) is called (by share_file, share_folder or the scan).
RegisterStart(p) ==
    /\ nregs < MaxRegs
    /\ RegisterCall(p)
    /\ UNCHANGED <<blobs, roots, files, hash_index>>
    /\ UNCHANGED notReg

\* self.node.add_file_reference(path.clone()).await returns Ok(hash).
RegImport ==
    /\ RegAt("import")
    /\ IsSome(fs[Unwrap(reg.path)])
    /\ LET out == AddPath(blobs, Unwrap(fs[Unwrap(reg.path)]))
           r == RegOk([reg EXCEPT !.hash = Some(HashToString(out.hash))], "import")
       IN /\ blobs' = out.store
          /\ reg' = r
          /\ hist' = HistAfterReturn(hist, r)
    /\ UNCHANGED <<nregs, roots, files, hash_index>>
    /\ UNCHANGED notReg

\* add_file_reference returns Err: FileNotFound when the path does not
\* exist, Iroh when the store fails to import it.
RegImportErr(storefails) ==
    /\ RegAt("import")
    /\ storefails \/ fs[Unwrap(reg.path)] = None
    /\ reg' = RegErr(reg, "import")
    /\ hist' = HistAfterReturn(hist, reg')
    /\ UNCHANGED <<blobs, nregs, roots, files, hash_index>>
    /\ UNCHANGED notReg

\* tokio::fs::metadata(path).await returns Ok: the size and the creation time.
RegMetadata ==
    /\ RegAt("metadata")
    /\ IsSome(fs[Unwrap(reg.path)])
    /\ LET file == Unwrap(fs[Unwrap(reg.path)])
           r == RegOk([reg EXCEPT !.size = SizeOf(file.content),
                                  !.created = CreatedAt(file, wall)], "metadata")
       IN /\ reg' = r
          /\ hist' = HistAfterReturn(hist, r)
    /\ UNCHANGED <<blobs, nregs, roots, files, hash_index>>
    /\ UNCHANGED notReg

\* tokio::fs::metadata returns Err: the file is gone.
RegMetadataErr ==
    /\ RegAt("metadata")
    /\ fs[Unwrap(reg.path)] = None
    /\ reg' = RegErr(reg, "metadata")
    /\ hist' = HistAfterReturn(hist, reg')
    /\ UNCHANGED <<blobs, nregs, roots, files, hash_index>>
    /\ UNCHANGED notReg

\* let meta = FileMetadata { path, hash, size, mime_type, created_at }
RegMeta(r) ==
    [path |-> Unwrap(r.path), hash |-> Unwrap(r.hash), size |-> r.size,
     mime_type |-> MimeGuess(Unwrap(r.path)), created_at |-> r.created]

\* What a registration left: the hash it returned, the blob store and the
\* path's index record.
RegSnapshot(r, store, f) ==
    [hash |-> Unwrap(r.hash), blobs |-> store,
     rec |-> GetByPath(f, Unwrap(r.path))]

\* A registration of p has succeeded and left snap.
HistAfterRegister(h, p, snap) ==
    IF h[p].dirty THEN [h EXCEPT ![p] = NoHist]
    ELSE IF h[p].n = 0
         THEN [h EXCEPT ![p] = [n |-> 1, dirty |-> FALSE,
                                first |-> Some(snap), second |-> Some(snap)]]
    ELSE [h EXCEPT ![p] = [n |-> 2, dirty |-> FALSE,
                           first |-> h[p].second, second |-> Some(snap)]]

\* self.index.upsert_file(&meta) returns Ok.
RegUpsert ==
    /\ RegAt("upsert")
    /\ IsSome(BincodeEncode(RegMeta(reg)))
    /\ files' = UpsertFiles(files, RegMeta(reg))
    /\ hash_index' = UpsertHash(hash_index, RegMeta(reg))
    /\ reg' = RegOk(reg, "upsert")
    /\ hist' = IF reg'.pc = 0
               THEN HistAfterRegister(hist, Unwrap(reg.path),
                                      RegSnapshot(reg, blobs, files'))
               ELSE hist
    /\ UNCHANGED <<blobs, nregs, roots>>
    /\ UNCHANGED notReg

\* upsert_file returns Err: the path does not serialize, or the store refuses.
RegUpsertErr(storefails) ==
    /\ RegAt("upsert")
    /\ storefails \/ BincodeEncode(RegMeta(reg)) = None
    /\ reg' = RegErr(reg, "upsert")
    /\ hist' = HistAfterReturn(hist, reg')
    /\ UNCHANGED <<blobs, nregs, roots, files, hash_index>>
    /\ UNCHANGED notReg

\* A second of wall-clock time passes.
WallTick ==
    /\ wall < MaxWall
    /\ wall' = wall + 1
    /\ UNCHANGED <<fs, now, nfsops, birthtime, files, hash_index>>
    /\ UNCHANGED watchVars
    /\ UNCHANGED notWatch

\* The daemon serving register_file calls for files outside its watch roots:
\* no event reaches its watcher, whose ticks find nothing pending.
DaemonNext ==
    \/ \E p \in RegPaths : RegisterStart(p)
    \/ RegImport
    \/ \E storefails \in BOOLEAN : RegImportErr(storefails)
    \/ RegMetadata
    \/ RegMetadataErr
    \/ RegUpsert
    \/ \E storefails \in BOOLEAN : RegUpsertErr(storefails)
    \/ \E p \in RegPaths : \E c \in ContentsFor(p) : FsWrite(p, c)
    \/ \E p \in RegPaths : FsRemove(p)
    \/ WallTick

\* The files there are when the daemon has started, none under a watch root.
EnvInitDaemon ==
    /\ birthtime \in BOOLEAN
    /\ fs \in [FsPaths -> {None, Some(NewFile("c1", 0))}]
    /\ fs[PBad] = None /\ fs[PHid] = None
    /\ now = 0
    /\ nfsops = 0
    /\ wall = 0
    /\ roots = {}

\* ------------------------------------------------------------------------
\* StreamNode: identity and collections (crates/network/src/node.rs).

MaxNodes == 7
MaxColl == 2
MaxCollCalls == 3

\* SecretKey: the keys rand::rng() can produce.
SecretKeys == {"k1", "k2"}

\* hex::encode(key.to_bytes())
HexEncodeKey(k) == <<"hex", k>>

\* A key file a failed write left behind: created, nothing in it.
EmptyFile == << >>

\* hex::decode(hex_str.trim()) and bytes.try_into() for [u8; 32]: the key
\* when the content is the hex of 32 bytes.
HexDecodeKey(content) ==
    IF Len(content) = 2 /\ content[1] = "hex" /\ content[2] \in SecretKeys
    THEN Some(content[2]) ELSE None

\* endpoint.id(): the public key of the secret key.
EndpointId(k) == <<"id", k>>

\* key_path.exists()
\* (a variant that never finds the key file)
KeyPathNever(kf) == FALSE
KeyPathExists(kf) == IsSome(kf)

\* Where StreamNode::new can fail.
NodeFails == {"none", "mkdir", "read", "write", "perms", "store", "bind"}

\* StreamNode::new(data_dir) on key file kf; k: the key rand would give,
\* fail: the operation that fails, partial: a failed write leaves the file.
\* key: the secret key in use, id: Some(node id) when Ok(Self) is returned,
\* generated: SecretKey::generate ran, wrote: fs::write returned Ok.
NodeNew(kf, k, fail, partial) ==
    LET exists == KeyPathExists(kf)
        loaded == IF exists /\ fail # "read"
                  THEN HexDecodeKey(Unwrap(kf)) ELSE None
        generated == ~exists /\ fail # "mkdir"
        wrote == generated /\ fail # "write"
        key == IF exists THEN loaded
               ELSE IF wrote /\ fail # "perms" THEN Some(k) ELSE None
        kf1 == IF wrote THEN Some(HexEncodeKey(k))
               ELSE IF generated /\ partial THEN Some(EmptyFile)
               ELSE kf
        ok == IsSome(key) /\ fail \notin {"mkdir", "store", "bind"}
    IN [keyfile |-> kf1, before |-> kf, key |-> key,
        id |-> IF ok THEN Some(EndpointId(Unwrap(key))) ELSE None,
        generated |-> generated, wrote |-> wrote]

\* No Node constructed yet; ids: the node ids reported so far, writes: the
\* constructions that wrote a key, last: the latest construction.
NoNode ==
    [n |-> 0, cur |-> None, ids |-> {}, writes |-> 0, last |-> None]

\* StreamNode::new(data_dir) runs; fail is the `?` it leaves by, if any.
NodeConstructCall(k, fail, partial) ==
    /\ fail = "mkdir" => keyfile = None
    /\ fail = "read" => KeyPathExists(keyfile)
    /\ fail \in {"write", "perms"} => ~KeyPathExists(keyfile)
    /\ partial => fail = "write"
    /\ LET r == NodeNew(keyfile, k, fail, partial)
       IN /\ keyfile' = r.keyfile
          /\ node' = [n |-> node.n + 1, cur |-> r.id,
                      ids |-> node.ids \cup
                                 (IF IsSome(r.id) THEN {Unwrap(r.id)} ELSE {}),
                      writes |-> node.writes + (IF r.wrote THEN 1 ELSE 0),
                      last |-> Some(r)]

\* StreamNode::new runs once more against the data directory.
NodeConstruct(k, fail, partial) ==
    /\ node.n < MaxNodes
    /\ NodeConstructCall(k, fail, partial)
    /\ UNCHANGED <<coll, dop, codec, roots, hist, files, hash_index>>
    /\ UNCHANGED <<apiVars, txnVars, envVars, watchVars, daemonVars>>

\* The width of a digest in bytes.
DigestLen == 32

\* Hash::as_bytes(): a digest as 32 bytes.
DigestBytes(d) == [i \in 1..DigestLen |-> IF i = DigestLen THEN d ELSE 0]

\* MediaHash strings handed to create_collection: hex and base32 forms of the
\* digests, and one that is no digest.
HashStrings == {"01", "02", "ae", "zz"}

\* Hash::from_str(&h.0): hex, or base32 without padding in either case.
HashFromStr(s) ==
    IF s = "01" \/ s = "ae" THEN Some(1)
    ELSE IF s = "02" \/ s = "ai" THEN Some(2)
    ELSE None

\* hashes.iter().map(|h| Hash::from_str(&h.0)).collect(): the digests, or
\* None at the first that does not parse.
RECURSIVE ParseAll(_)
ParseAll(hashes) ==
    IF hashes = << >> THEN Some(<< >>)
    ELSE LET h == HashFromStr(Head(hashes))
             rest == ParseAll(Tail(hashes))
         IN IF IsSome(h) /\ IsSome(rest)
            THEN Some(<<Unwrap(h)>> \o Unwrap(rest))
            ELSE None

\* bytes.extend_from_slice(h.as_bytes()) for every h
RECURSIVE ManifestBytes(_)
ManifestBytes(ds) ==
    IF ds = << >> THEN << >>
    ELSE DigestBytes(Head(ds)) \o ManifestBytes(Tail(ds))

\* The members a manifest of whole digests lists.
ManifestMembers(bytes) ==
    [i \in 1..(Len(bytes) \div DigestLen) |-> bytes[i * DigestLen]]

\* BLAKE3 of a manifest (taken to be free of collisions, among manifests and
\* with the files' digests): the members in bijective base 2, after the
\* files' digests.
RECURSIVE MemberCode(_)
MemberCode(ds) == IF ds = << >> THEN 0 ELSE Head(ds) + 2 * MemberCode(Tail(ds))
Blake3Bytes(bytes) == 3 + MemberCode(ManifestMembers(bytes))

\* store.add_bytes(bytes) returned Ok: the store holds the blob under its
\* digest, and outcome.hash is that digest.
\* (a variant that stores every manifest under a fresh entry)
AddBytesFresh(store, bytes) ==
    [store |-> store \cup {Blake3Bytes(bytes) + 100 * Cardinality(store)},
     hash |-> Blake3Bytes(bytes) + 100 * Cardinality(store)]
AddBytes(store, bytes) ==
    [store |-> store \cup {Blake3Bytes(bytes)}, hash |-> Blake3Bytes(bytes)]

HexDigits ==
    <<"0", "1", "2", "3", "4", "5", "6", "7", "8", "9", "a", "b", "c", "d",
      "e", "f">>

\* hash.to_string(): the characters of the digest in lower-case hex.
HexChars(d) == <<HexDigits[((d \div 16) % 16) + 1], HexDigits[(d % 16) + 1]>>

\* create_collection(hashes); storefails: add_bytes returns Err.
\* (a variant that stores the manifest before it parses the hashes)
CreateCollectionStoreFirst(store, hashes, storefails) ==
    LET parsed == ParseAll(hashes)
        good == SelectSeq(hashes, LAMBDA h : IsSome(HashFromStr(h)))
        out == AddBytes(store, ManifestBytes(Unwrap(ParseAll(good))))
    IN IF parsed = None
       THEN [store |-> out.store, result |-> <<"Err", "InvalidHash">>]
       ELSE [store |-> out.store, result |-> <<"Ok", HexChars(out.hash)>>]
CreateCollection(store, hashes, storefails) ==
    LET parsed == ParseAll(hashes)
    IN IF parsed = None
       THEN [store |-> store, result |-> <<"Err", "InvalidHash">>]
       ELSE IF storefails
            THEN [store |-> store, result |-> <<"Err", "Iroh">>]
       ELSE LET out == AddBytes(store, ManifestBytes(Unwrap(parsed)))
            IN [store |-> out.store, result |-> <<"Ok", HexChars(out.hash)>>]

\* The lists create_collection is called with.
HashLists == UNION {[1..n -> HashStrings] : n \in 0..MaxColl}

\* No create_collection call yet; first: per list, the hash its first
\* successful call returned; added: per list, the entries its calls added to
\* the store; last: the latest call, the store before and after it, and
\* whether a call with its list had succeeded before.
NoColl ==
    [n |-> 0, first |-> [l \in HashLists |-> None],
     added |-> [l \in HashLists |-> 0], last |-> None]

\* node.create_collection(hashes) is called.
NodeCreateCollection(hashes, storefails) ==
    /\ IsSome(node.cur)
    /\ coll.n < MaxCollCalls
    /\ LET r == CreateCollection(blobs, hashes, storefails)
       IN /\ blobs' = r.store
          /\ coll' = [n |-> coll.n + 1,
                      first |-> IF r.result[1] = "Ok" /\ coll.first[hashes] = None
                                THEN [coll.first EXCEPT ![hashes] = Some(r.result[2])]
                                ELSE coll.first,
                      added |-> [coll.added EXCEPT ![hashes] =
                                    @ + Cardinality(r.store \ blobs)],
                      last |-> Some([hashes |-> hashes, result |-> r.result,
                                     before |-> blobs, after |-> r.store,
                                     repeat |-> IsSome(coll.first[hashes])])]
    /\ UNCHANGED <<reg, nregs, keyfile, node, dop, codec, roots, hist, files,
                   hash_index>>
    /\ UNCHANGED <<apiVars, txnVars, envVars, watchVars>>

\* node.add_file_reference(path) on a file of content c returns Ok.
NodeAddFile(c) ==
    /\ IsSome(node.cur)
    /\ blobs' = AddPath(blobs, File(c, None)).store
    /\ blobs' # blobs
    /\ UNCHANGED <<reg, nregs, keyfile, node, coll, dop, codec, roots, hist,
                   files, hash_index>>
    /\ UNCHANGED <<apiVars, txnVars, envVars, watchVars>>

\* Node constructions on one data directory, one after the other.
NodeNext ==
    \E k \in SecretKeys, fail \in NodeFails, partial \in BOOLEAN :
        NodeConstruct(k, fail, partial)

\* A Node's store in use: collections, and files imported in between.
CollNext ==
    \/ \E hashes \in HashLists, storefails \in BOOLEAN :
          NodeCreateCollection(hashes, storefails)
    \/ \E c \in Contents : NodeAddFile(c)

\* A data directory no Node has used.
NodeInit == keyfile = None /\ node = NoNode /\ coll = NoColl

\* A data directory the running daemon's Node has used.
NodeStarted ==
    /\ keyfile = Some(HexEncodeKey("k1"))
    /\ node = [n |-> 1, cur |-> Some(EndpointId("k1")),
                ids |-> {EndpointId("k1")}, writes |-> 1,
                last |-> Some(NodeNew(None, "k1", "none", FALSE))]
    /\ coll = NoColl

\* ------------------------------------------------------------------------
\* ShareTicket and its codec (crates/core/src/types.rs).  A String is a
\* sequence of characters; the JSON text is a sequence of bytes; a base64
\* string is a sequence of the alphabet's positions 0..63, Pad for '=' and
\* NotB64 for a character outside the alphabet.

EAcute == "U+00E9"
Pad == 64
NotB64 == 65

\* The ASCII characters that occur, and their codes.
Ascii ==
    [c \in {"{", "}", "\"", ":", ",", "\\", "_", ".", "0", "1", "2", "3", "4",
            "5", "6", "7", "8", "9", "N", "a", "c", "d", "e", "h", "i", "l",
            "m", "n", "o", "p", "r", "s", "t", "u", "w", "y"} |->
        CASE c = "{" -> 123 [] c = "}" -> 125 [] c = "\"" -> 34
          [] c = ":" -> 58 [] c = "," -> 44 [] c = "\\" -> 92
          [] c = "_" -> 95 [] c = "." -> 46
          [] c = "0" -> 48 [] c = "1" -> 49 [] c = "2" -> 50 [] c = "3" -> 51
          [] c = "4" -> 52 [] c = "5" -> 53 [] c = "6" -> 54 [] c = "7" -> 55
          [] c = "8" -> 56 [] c = "9" -> 57 [] c = "N" -> 78
          [] c = "a" -> 97 [] c = "c" -> 99 [] c = "d" -> 100
          [] c = "e" -> 101 [] c = "h" -> 104 [] c = "i" -> 105
          [] c = "l" -> 108 [] c = "m" -> 109 [] c = "n" -> 110
          [] c = "o" -> 111 [] c = "p" -> 112 [] c = "r" -> 114
          [] c = "s" -> 115 [] c = "t" -> 116 [] c = "u" -> 117
          [] c = "w" -> 119 [] c = "y" -> 121]

\* The UTF-8 bytes of a character.
Utf8(c) ==
    IF c = EAcute THEN <<195, 169>>
    ELSE IF c = ReplChar THEN <<239, 191, 189>>
    ELSE <<Ascii[c]>>

RECURSIVE Utf8All(_)
Utf8All(str) == IF str = << >> THEN << >> ELSE Utf8(Head(str)) \o Utf8All(Tail(str))

\* serde_json's string escapes.
\* (a variant that writes every character as it is)
EscapeNone(c) == Utf8(c)
Escape(c) ==
    IF c = "\"" THEN <<92, 34>>
    ELSE IF c = "\\" THEN <<92, 92>>
    ELSE Utf8(c)

RECURSIVE EscapeAll(_)
EscapeAll(str) ==
    IF str = << >> THEN << >> ELSE Escape(Head(str)) \o EscapeAll(Tail(str))

\* A JSON string.
JsonString(str) == <<34>> \o EscapeAll(str) \o <<34>>

\* A JSON number: a u64 in decimal.
RECURSIVE JsonNumber(_)
JsonNumber(n) ==
    IF n < 10 THEN <<48 + n>> ELSE JsonNumber(n \div 10) \o <<48 + (n % 10)>>

\* The field names of ShareTicket.
KeyNodeId == <<"n", "o", "d", "e", "_", "i", "d">>
KeyRelayUrl == <<"r", "e", "l", "a", "y", "_", "u", "r", "l">>
KeyHash == <<"h", "a", "s", "h">>
KeyName == <<"n", "a", "m", "e">>
KeyCreatedAt == <<"c", "r", "e", "a", "t", "e", "d", "_", "a", "t">>

ShareTicket(node_id, relay_url, hash, name, created_at) ==
    [node_id |-> node_id, relay_url |-> relay_url, hash |-> hash,
     name |-> name, created_at |-> created_at]

\* serde_json::to_string(self): the fields in declaration order.
JsonTicket(t) ==
    <<123>> \o JsonString(KeyNodeId) \o <<58>> \o JsonString(t.node_id)
    \o <<44>> \o JsonString(KeyRelayUrl) \o <<58>> \o JsonString(t.relay_url)
    \o <<44>> \o JsonString(KeyHash) \o <<58>> \o JsonString(t.hash)
    \o <<44>> \o JsonString(KeyName) \o <<58>> \o JsonString(t.name)
    \o <<44>> \o JsonString(KeyCreatedAt) \o <<58>> \o JsonNumber(t.created_at)
    \o <<125>>

\* BASE64_STANDARD.encode: three bytes make four positions, the rest padded.
RECURSIVE Base64Encode(_)
Base64Encode(b) ==
    IF Len(b) = 0 THEN << >>
    ELSE IF Len(b) = 1
         THEN <<b[1] \div 4, (b[1] % 4) * 16, Pad, Pad>>
    ELSE IF Len(b) = 2
         THEN <<b[1] \div 4, (b[1] % 4) * 16 + (b[2] \div 16),
                (b[2] % 16) * 4, Pad>>
    ELSE <<b[1] \div 4, (b[1] % 4) * 16 + (b[2] \div 16),
           (b[2] % 16) * 4 + (b[3] \div 64), b[3] % 64>>
         \o Base64Encode(SubSeq(b, 4, Len(b)))

\* BASE64_STANDARD.decode: whole groups of four, canonical padding in the
\* last group only, no character outside the alphabet, no stray bits.  acc
\* holds the bytes of the groups before w.
RECURSIVE Base64DecodeFrom(_, _)
Base64DecodeFrom(w, acc) ==
    IF Len(w) = 0 THEN Some(acc)
    ELSE IF Len(w) < 4 THEN None
    ELSE LET a == w[1]
             b == w[2]
             c == w[3]
             d == w[4]
             final == Len(w) = 4
         IN IF a > 63 \/ b > 63 \/ c > Pad \/ d > Pad THEN None
            ELSE IF c = Pad
                 THEN IF final /\ d = Pad /\ b % 16 = 0
                      THEN Some(acc \o <<a * 4 + (b \div 16)>>) ELSE None
            ELSE IF d = Pad
                 THEN IF final /\ c % 4 = 0
                      THEN Some(acc \o <<a * 4 + (b \div 16),
                                         (b % 16) * 16 + (c \div 4)>>)
                      ELSE None
            ELSE Base64DecodeFrom(SubSeq(w, 5, Len(w)),
                                  acc \o <<a * 4 + (b \div 16),
                                           (b % 16) * 16 + (c \div 4),
                                           (c % 4) * 64 + d>>)

Base64Decode(w) == Base64DecodeFrom(w, << >>)

\* What a parser has read: ok, the position after it, the value.
Parsed(pos, val) == [ok |-> TRUE, pos |-> pos, val |-> val]
ParseError == [ok |-> FALSE, pos |-> 0, val |-> << >>]

\* The character whose code is the byte.
CharOf(byte) == CHOOSE c \in DOMAIN Ascii : Ascii[c] = byte
IsAscii(byte) == \E c \in DOMAIN Ascii : Ascii[c] = byte

\* The characters of a JSON string from position i, after its opening
\* quote, up to its closing quote.
RECURSIVE ParseChars(_, _, _)
ParseChars(b, i, acc) ==
    IF i > Len(b) THEN ParseError
    ELSE IF b[i] = 34 THEN Parsed(i + 1, acc)
    ELSE IF b[i] = 92
         THEN IF i + 1 <= Len(b) /\ b[i + 1] \in {34, 92}
              THEN ParseChars(b, i + 2, Append(acc, CharOf(b[i + 1])))
              ELSE ParseError
    ELSE IF b[i] = 195
         THEN IF i + 1 <= Len(b) /\ b[i + 1] = 169
              THEN ParseChars(b, i + 2, Append(acc, EAcute))
              ELSE ParseError
    ELSE IF b[i] = 239
         THEN IF i + 2 <= Len(b) /\ b[i + 1] = 191 /\ b[i + 2] = 189
              THEN ParseChars(b, i + 3, Append(acc, ReplChar))
              ELSE ParseError
    ELSE IF IsAscii(b[i]) THEN ParseChars(b, i + 1, Append(acc, CharOf(b[i])))
    ELSE ParseError

ParseString(b, i) ==
    IF i <= Len(b) /\ b[i] = 34 THEN ParseChars(b, i + 1, << >>) ELSE ParseError

IsDigit(byte) == byte >= 48 /\ byte <= 57

\* The digits of a JSON number from position i.
RECURSIVE ParseDigits(_, _, _)
ParseDigits(b, i, acc) ==
    IF i <= Len(b) /\ IsDigit(b[i])
    THEN ParseDigits(b, i + 1, acc * 10 + (b[i] - 48))
    ELSE Parsed(i, acc)

\* A JSON number: no leading zero.
ParseNumber(b, i) ==
    IF i > Len(b) \/ ~IsDigit(b[i]) THEN ParseError
    ELSE IF b[i] = 48 /\ i + 1 <= Len(b) /\ IsDigit(b[i + 1]) THEN ParseError
    ELSE ParseDigits(b, i, 0)

\* What was read, tagged with its type.
Tagged(type, r) ==
    IF r.ok THEN Parsed(r.pos, <<type, r.val>>) ELSE ParseError

\* A value: a string or a number.
ParseValue(b, i) ==
    IF i <= Len(b) /\ b[i] = 34
    THEN Tagged("string", ParseString(b, i))
    ELSE Tagged("number", ParseNumber(b, i))

\* The members of an object from position i: "key":value, separated by
\* commas, up to the closing brace.  AfterKey goes on when the key k has
\* been read, AfterValue when its value v has.
RECURSIVE ParseMembers(_, _, _)
RECURSIVE AfterKey(_, _, _)
RECURSIVE AfterValue(_, _, _, _)
AfterValue(b, key, v, acc) ==
    IF ~v.ok \/ v.pos > Len(b) THEN ParseError
    ELSE IF b[v.pos] = 125 THEN Parsed(v.pos + 1, Append(acc, <<key, v.val>>))
    ELSE IF b[v.pos] = 44
         THEN ParseMembers(b, v.pos + 1, Append(acc, <<key, v.val>>))
    ELSE ParseError

AfterKey(b, k, acc) ==
    IF ~k.ok \/ k.pos > Len(b) \/ b[k.pos] # 58 THEN ParseError
    ELSE AfterValue(b, k.val, ParseValue(b, k.pos + 1), acc)

ParseMembers(b, i, acc) == AfterKey(b, ParseString(b, i), acc)

\* Nothing may follow the object.
AtEnd(b, r) == IF r.ok /\ r.pos = Len(b) + 1 THEN r ELSE ParseError

ParseObject(b) ==
    IF Len(b) < 2 \/ b[1] # 123 THEN ParseError
    ELSE AtEnd(b, IF b[2] = 125 THEN Parsed(3, << >>)
                  ELSE ParseMembers(b, 2, << >>))

\* The value of a field of the derived Deserialize: there once, of its type;
\* other keys are skipped.
Field(members, key, type) ==
    LET at == {i \in DOMAIN members : members[i][1] = key}
    IN IF Cardinality(at) = 1
       THEN LET v == members[CHOOSE i \in at : TRUE][2]
            IN IF v[1] = type THEN Some(v[2]) ELSE None
       ELSE None

\* All five fields, or no ticket.
TicketOf(node_id, relay_url, hash, name, created_at) ==
    IF IsSome(node_id) /\ IsSome(relay_url) /\ IsSome(hash)
       /\ IsSome(name) /\ IsSome(created_at)
    THEN Some(ShareTicket(Unwrap(node_id), Unwrap(relay_url), Unwrap(hash),
                          Unwrap(name), Unwrap(created_at)))
    ELSE None

FieldsOf(r) ==
    IF ~r.ok THEN None
    ELSE TicketOf(Field(r.val, KeyNodeId, "string"),
                  Field(r.val, KeyRelayUrl, "string"),
                  Field(r.val, KeyHash, "string"),
                  Field(r.val, KeyName, "string"),
                  Field(r.val, KeyCreatedAt, "number"))

\* serde_json::from_slice::<ShareTicket>(&bytes)
JsonParseTicket(b) == FieldsOf(ParseObject(b))

\* ShareTicket::encode
Encode(t) == Base64Encode(JsonTicket(t))

\* ShareTicket::decode: the two map_err.
DecodeResult(t) ==
    IF t = None THEN <<"Err", "InvalidHash", "JSON decode failed">>
    ELSE <<"Ok", Unwrap(t)>>

DecodeBytes(bytes) ==
    IF bytes = None THEN <<"Err", "InvalidHash", "Base64 decode failed">>
    ELSE DecodeResult(JsonParseTicket(Unwrap(bytes)))

\* ShareTicket::decode
Decode(w) == DecodeBytes(Base64Decode(w))

\* The tickets encoded.
TicketStrings == {<< >>, <<"a">>, <<"\"">>, <<"\\", "a">>, <<EAcute>>}
TicketTimes == {0, 7, 10}
Tickets ==
    {ShareTicket(i, r, h, n, c) :
        i \in {<<"1">>}, r \in {<<"N", "o", "n", "e">>},
        h \in {<<"0", "1">>, <<"\"">>}, n \in TicketStrings, c \in TicketTimes}

\* Strings that are no encoded ticket, made from one: a character outside
\* the alphabet, a character short, a padding character too many, the JSON
\* text cut, a field renamed, a field twice, a string where the number
\* belongs.
Damages == {"badchar", "short", "nopad", "cut", "renamed", "twice", "typed"}
Damage(t, kind) ==
    LET w == Encode(t)
        json == JsonTicket(t)
    IN CASE kind = "badchar" -> [w EXCEPT ![2] = NotB64]
         [] kind = "short" -> SubSeq(w, 1, Len(w) - 1)
         [] kind = "nopad" -> Base64Encode(json \o <<125>>) \o <<Pad>>
         [] kind = "cut" -> Base64Encode(SubSeq(json, 1, Len(json) - 1))
         [] kind = "renamed" -> Base64Encode([json EXCEPT ![3] = 97])
         [] kind = "twice" ->
               Base64Encode(SubSeq(json, 1, Len(json) - 1) \o <<44>>
                            \o JsonString(KeyName) \o <<58>> \o JsonString(t.name)
                            \o <<125>>)
         [] kind = "typed" ->
               Base64Encode(SubSeq(json, 1, Len(json) - 1
                                            - Len(JsonNumber(t.created_at)))
                            \o JsonString(<<"a">>) \o <<125>>)

\* No ticket in hand.
NoCodec == [t |-> None, wire |-> None, valid |-> FALSE, out |-> None]

\* ticket.encode()
CodecEncode(t) ==
    /\ codec.wire = None
    /\ codec' = [t |-> Some(t), wire |-> Some(Encode(t)), valid |-> TRUE,
                 out |-> None]
    /\ UNCHANGED <<dop, roots, hist, files, hash_index>>
    /\ UNCHANGED <<apiVars, txnVars, envVars, watchVars, daemonVars, nodeVars>>

\* A string that is no encoded ticket arrives.
CodecDamage(t, kind) ==
    /\ codec.wire = None
    /\ codec' = [t |-> Some(t), wire |-> Some(Damage(t, kind)),
                 valid |-> FALSE, out |-> None]
    /\ UNCHANGED <<dop, roots, hist, files, hash_index>>
    /\ UNCHANGED <<apiVars, txnVars, envVars, watchVars, daemonVars, nodeVars>>

\* ShareTicket::decode(wire)
CodecDecode ==
    /\ IsSome(codec.wire) /\ codec.out = None
    /\ codec' = [codec EXCEPT !.out = Some(Decode(Unwrap(codec.wire)))]
    /\ UNCHANGED <<dop, roots, hist, files, hash_index>>
    /\ UNCHANGED <<apiVars, txnVars, envVars, watchVars, daemonVars, nodeVars>>

CodecNext ==
    \/ \E t \in Tickets : CodecEncode(t)
    \/ \E t \in Tickets, kind \in Damages : CodecDamage(t, kind)
    \/ CodecDecode

\* ------------------------------------------------------------------------
\* The daemon's operations (crates/host/src/daemon.rs).

MaxShares == 1

\* The directory tree: the watch root /w, its subdirectory /w/d, which is
\* there when it holds a file, and the files under them.
TreePaths == FsPaths \cup {PSub}
Root == << <<"w">> >>
SubDir == << <<"w">>, <<"d">> >>
Dirs == {Root, SubDir}

\* A path nothing is at.
Missing == << <<"x">> >>

\* Path::is_dir(), Path::is_file(), Path::exists()
IsDirAt(tree, p) == p = Root \/ (p = SubDir /\ IsSome(tree[PSub]))
IsFileAt(tree, p) == p \in DOMAIN tree /\ IsSome(tree[p])
ExistsAt(tree, p) == IsDirAt(tree, p) \/ IsFileAt(tree, p)

Parent(p) == SubSeq(p, 1, Len(p) - 1)

\* tokio::fs::read_dir(dir): the entries of dir, files and directories.
ReadDir(tree, dir) ==
    {p \in DOMAIN tree \cup Dirs :
        Len(p) > 1 /\ Parent(p) = dir /\ ExistsAt(tree, p)}

\* The entries share_folder enumerates.
\* (a variant that goes down into the subdirectories)
ShareEntriesDeep(tree, dir) ==
    {p \in DOMAIN tree \cup Dirs :
        /\ Len(p) > Len(dir) /\ SubSeq(p, 1, Len(dir)) = dir
        /\ ExistsAt(tree, p)}
ShareEntries(tree, dir) == ReadDir(tree, dir)

\* The stages of HostDaemon::new, in order.
HostProgram == <<"index", "node", "watcher", "scan">>

\* No operation running; new has not been called.  name: the operation;
\* pc: its position, 0 when it has returned; running: new has returned a
\* daemon; trace: the stages new went through and how each ended; stack: the
\* entries scan_recursive has still to visit, per directory it is in; seen:
\* per file, how its registration by the scan ended; cur: the file whose
\* registration is awaited; target, todo, called, hashes, members: of
\* share_folder, its path, the entries to come, the files it has called
\* register_file on, the hashes pushed and their files; result: what the
\* operation returned; before: the stores when share_folder was called;
\* nshares: share_folder calls so far; readdir: a read_dir has failed.
NoOp ==
    [name |-> "none", pc |-> 0, running |-> FALSE, trace |-> << >>,
     stack |-> << >>, seen |-> [p \in TreePaths |-> "no"], cur |-> None,
     target |-> None, todo |-> {}, called |-> {}, hashes |-> << >>,
     members |-> << >>, result |-> None, before |-> None, nshares |-> 0,
     readdir |-> FALSE]

\* HostDaemon::new(config) has been entered.
HostEntered == [NoOp EXCEPT !.name = "new", !.pc = 1]

HostAt(stage) ==
    /\ dop.name = "new"
    /\ dop.pc \in DOMAIN HostProgram /\ HostProgram[dop.pc] = stage

\* new goes on to its next stage, or returns Ok(daemon) after the last.
HostOk(d, stage) ==
    LET done == d.pc = Len(HostProgram)
    IN [d EXCEPT !.pc = IF done THEN 0 ELSE d.pc + 1,
                 !.trace = Append(@, <<stage, "ok">>),
                 !.running = done,
                 !.result = IF done THEN Some(<<"Ok", "daemon">>) ELSE @]

\* `?`: new returns the error.
\* (a variant that goes on to the next stage all the same)
HostErrGoesOn(d, stage) ==
    [d EXCEPT !.pc = IF d.pc = Len(HostProgram) THEN 0 ELSE d.pc + 1,
              !.trace = Append(@, <<stage, "err">>),
              !.result = Some(<<"Err", stage>>)]
HostErr(d, stage) ==
    [d EXCEPT !.pc = 0, !.trace = Append(@, <<stage, "err">>),
              !.result = Some(<<"Err", stage>>)]

\* What no step of a daemon operation changes by itself.
notHost == <<files, hash_index, apiVars, txnVars, envVars, roots, codec, coll>>
watchRest == <<queue, senders, nextTick, pending, units, nunits, burst, failed>>

\* FileIndex::open(db_path)
HostOpenIndex(fails) ==
    /\ HostAt("index")
    /\ dop' = IF fails THEN HostErr(dop, "index") ELSE HostOk(dop, "index")
    /\ UNCHANGED <<keyfile, node, watchVars, daemonVars, hist>>
    /\ UNCHANGED notHost

\* StreamNode::new(config.data_dir.clone()).await
HostNodeNew(k, fail, partial) ==
    /\ HostAt("node")
    /\ NodeConstructCall(k, fail, partial)
    /\ dop' = IF IsSome(node'.cur) THEN HostOk(dop, "node")
              ELSE HostErr(dop, "node")
    /\ UNCHANGED <<watchVars, daemonVars, hist>>
    /\ UNCHANGED notHost

\* FileWatcher::new(watcher_index, watch_paths) and tokio::spawn of its loop
\* under the child token.
HostWatcherNew(fails) ==
    /\ HostAt("watcher")
    /\ dop' = IF fails THEN HostErr(dop, "watcher") ELSE HostOk(dop, "watcher")
    /\ wstate' = IF fails THEN wstate ELSE "running"
    /\ UNCHANGED <<cancelled, watchRest>>
    /\ UNCHANGED <<keyfile, node, daemonVars, hist>>
    /\ UNCHANGED notHost

\* The scan has not yet read a directory.
ScanNotStarted == dop.stack = << >> /\ dop.cur = None

\* The directory scan_recursive is in: the entries it has still to visit.
ScanTop == dop.stack[Len(dop.stack)]
ScanWithout(d, e) == [d EXCEPT !.stack[Len(d.stack)] = @ \ {e}]

\* ingest_existing_files: scan_recursive(root) reads the root; an error of
\* read_dir leaves new by `?`, and the daemon dropped cancels the token.
ScanRoot(ioerr) ==
    /\ HostAt("scan") /\ ScanNotStarted
    /\ \A p \in TreePaths : dop.seen[p] = "no"
    /\ dop' = IF ioerr THEN [HostErr(dop, "scan") EXCEPT !.readdir = TRUE]
              ELSE [dop EXCEPT !.stack = <<ReadDir(fs, Root)>>]
    /\ cancelled' = (cancelled \/ ioerr)
    /\ UNCHANGED <<wstate, watchRest>>
    /\ UNCHANGED <<keyfile, node, daemonVars, hist>>
    /\ UNCHANGED notHost

\* The next entry is a directory: scan_recursive(&path).await?
ScanEntryDir(e, ioerr) ==
    /\ HostAt("scan") /\ dop.stack # << >> /\ dop.cur = None
    /\ e \in ScanTop /\ IsDirAt(fs, e)
    /\ dop' = IF ioerr THEN [HostErr(dop, "scan") EXCEPT !.readdir = TRUE]
              ELSE [ScanWithout(dop, e) EXCEPT
                        !.stack = Append(@, ReadDir(fs, e))]
    /\ cancelled' = (cancelled \/ ioerr)
    /\ UNCHANGED <<wstate, watchRest>>
    /\ UNCHANGED <<keyfile, node, daemonVars, hist>>
    /\ UNCHANGED notHost

\* The next entry is no directory: self.register_file(&path) is called.
ScanEntryFile(e) ==
    /\ HostAt("scan") /\ dop.stack # << >> /\ dop.cur = None
    /\ e \in ScanTop /\ ~IsDirAt(fs, e)
    /\ RegisterCall(e)
    /\ dop' = [ScanWithout(dop, e) EXCEPT !.cur = Some(e)]
    /\ UNCHANGED <<keyfile, node, watchVars, blobs>>
    /\ UNCHANGED notHost

\* The registration has returned.
RegReturned == reg.pc = 0 /\ reg.trace # << >>
RegReturnedOk == RegReturned /\ reg.trace[Len(reg.trace)][2] = "ok"

\* if let Err(e) = ... { warn!(...) }: the scan goes on.
\* (a variant that leaves the scan with the error)
ScanRegisterFailedAborts(d, p) ==
    [HostErr(d, "scan") EXCEPT !.seen[p] = "err", !.cur = None]
ScanRegisterFailed(d, p) == [d EXCEPT !.seen[p] = "err", !.cur = None]

\* register_file has returned to the scan.
ScanRegistered ==
    /\ HostAt("scan") /\ IsSome(dop.cur) /\ RegReturned
    /\ dop' = IF RegReturnedOk
              THEN [dop EXCEPT !.seen[Unwrap(dop.cur)] = "ok", !.cur = None]
              ELSE ScanRegisterFailed(dop, Unwrap(dop.cur))
    /\ UNCHANGED <<keyfile, node, watchVars, daemonVars, hist>>
    /\ UNCHANGED notHost

\* next_entry() yields None: scan_recursive returns Ok(()); after the root,
\* new returns Ok(daemon).
ScanReturn ==
    /\ HostAt("scan") /\ dop.stack # << >> /\ dop.cur = None
    /\ ScanTop = {}
    /\ dop' = IF Len(dop.stack) = 1
              THEN [HostOk(dop, "scan") EXCEPT !.stack = << >>]
              ELSE [dop EXCEPT !.stack = SubSeq(@, 1, Len(@) - 1)]
    /\ UNCHANGED <<keyfile, node, watchVars, daemonVars, hist>>
    /\ UNCHANGED notHost

\* The operation has returned and the daemon is there.
HostReady == dop.pc = 0 /\ dop.running /\ reg.pc = 0

\* The stores as share_folder finds them.
Stores == [files |-> files, hash_index |-> hash_index, blobs |-> blobs]

\* share_folder(path) has been entered.
ShareEntered(target) ==
    [dop EXCEPT !.name = "share_folder", !.pc = 1, !.target = Some(target),
                !.todo = {}, !.called = {}, !.hashes = << >>,
                !.members = << >>, !.cur = None, !.result = None,
                !.before = Some(Stores), !.nshares = @ + 1,
                !.readdir = FALSE]

\* share_folder returns.
ShareErr(d, kind) == [d EXCEPT !.pc = 0, !.result = Some(<<"Err", kind>>)]
ShareOk(d, ticket) == [d EXCEPT !.pc = 0, !.result = Some(<<"Ok", ticket>>)]

ShareAt == dop.name = "share_folder" /\ dop.pc = 1

\* share_folder(path): canonicalize, the is_dir test and read_dir.
ShareFolderStart(target, ioerr) ==
    /\ HostReady /\ dop.nshares < MaxShares
    /\ dop' = IF ~ExistsAt(fs, target) \/ ~IsDirAt(fs, target)
              THEN ShareErr(ShareEntered(target), "Io")
              ELSE IF ioerr
              THEN ShareErr([ShareEntered(target) EXCEPT !.readdir = TRUE], "Io")
              ELSE [ShareEntered(target) EXCEPT
                        !.todo = ShareEntries(fs, target)]
    /\ UNCHANGED <<keyfile, node, watchVars, daemonVars, hist>>
    /\ UNCHANGED notHost

\* The next entry is no regular file.
ShareFolderSkip(e) ==
    /\ ShareAt /\ dop.cur = None
    /\ e \in dop.todo /\ ~IsFileAt(fs, e)
    /\ dop' = [dop EXCEPT !.todo = @ \ {e}]
    /\ UNCHANGED <<keyfile, node, watchVars, daemonVars, hist>>
    /\ UNCHANGED notHost

\* The next entry is a regular file: self.register_file(&entry_path)
ShareFolderRegister(e) ==
    /\ ShareAt /\ dop.cur = None
    /\ e \in dop.todo /\ IsFileAt(fs, e)
    /\ RegisterCall(e)
    /\ dop' = [dop EXCEPT !.todo = @ \ {e}, !.cur = Some(e),
                          !.called = @ \cup {e}]
    /\ UNCHANGED <<keyfile, node, watchVars, blobs>>
    /\ UNCHANGED notHost

\* `self.register_file(&entry_path).await?` on Err: share_folder returns it.
\* (a variant that skips the file, as the startup scan does)
ShareRegisterFailedSkips(d) == [d EXCEPT !.cur = None]
ShareRegisterFailed(d) == ShareErr([d EXCEPT !.cur = None], "register")

\* register_file has returned: `?`, then hashes.push(hash).
ShareFolderRegistered ==
    /\ ShareAt /\ IsSome(dop.cur) /\ RegReturned
    /\ dop' = IF RegReturnedOk
              THEN [dop EXCEPT !.hashes = Append(@, Unwrap(reg.hash)),
                               !.members = Append(@, Unwrap(dop.cur)),
                               !.cur = None]
              ELSE ShareRegisterFailed(dop)
    /\ UNCHANGED <<keyfile, node, watchVars, daemonVars, hist>>
    /\ UNCHANGED notHost

\* hashes.is_empty()
\* (a variant that finds the list never empty)
HashesEmptyNever(hashes) == FALSE
HashesEmpty(hashes) == hashes = << >>

\* endpoint.id().to_string(): the identifier as a string.
NodeIdString(id) == <<IF id[2] = "k1" THEN "1" ELSE "2">>

\* relay_url(): no relay known.
RelayNone == <<"N", "o", "n", "e">>

\* node.generate_ticket(hash, name) at the wall-clock second t.
GenerateTicket(id, hash, name, t) ==
    ShareTicket(NodeIdString(id), RelayNone, hash, name, t)

\* canonical.file_name().map(|s| s.to_string_lossy().to_string())
FolderName(p) ==
    LET lossy == ToStringLossy(p)
    IN IF FileNameOf(lossy) = None THEN <<"c">> ELSE Unwrap(FileNameOf(lossy))

\* The enumeration is over: the is_empty test, create_collection,
\* generate_ticket and encode.
ShareFolderFinish(storefails) ==
    /\ ShareAt /\ dop.cur = None /\ dop.todo = {}
    /\ IF HashesEmpty(dop.hashes)
       THEN /\ dop' = ShareErr(dop, "Io")
            /\ blobs' = blobs
       ELSE LET r == CreateCollection(blobs, dop.hashes, storefails)
            IN /\ blobs' = r.store
               /\ dop' = IF r.result[1] = "Ok"
                         THEN ShareOk(dop,
                                  Encode(GenerateTicket(Unwrap(node.cur),
                                             r.result[2],
                                             FolderName(Unwrap(dop.target)),
                                             wall)))
                         ELSE ShareErr(dop, r.result[2])
    /\ UNCHANGED <<keyfile, node, watchVars, reg, nregs, hist>>
    /\ UNCHANGED notHost

\* A path with a `..` in it: /w/d/../a.mp4.
DotDot == <<".", ".">>
PDots == << <<"w">>, <<"d">>, DotDot, <<"a", ".", "mp4">> >>

\* The path with its `..` components resolved; None when a component
\* before a `..` is not an existing directory.
RECURSIVE Resolve(_, _, _)
Resolve(tree, p, acc) ==
    IF p = << >> THEN Some(acc)
    ELSE IF Head(p) = DotDot
         THEN IF Len(acc) > 0 /\ IsDirAt(tree, acc)
              THEN Resolve(tree, Tail(p), Parent(acc))
              ELSE None
    ELSE Resolve(tree, Tail(p), Append(acc, Head(p)))

\* path.canonicalize(): the absolute path without `..`, an error when
\* nothing is at it.
Canonicalize(tree, p) ==
    LET r == Resolve(tree, p, << >>)
    IN IF IsSome(r) /\ ExistsAt(tree, Unwrap(r)) THEN r ELSE None

\* The characters of a file name.
RECURSIVE NameChars(_)
NameChars(comp) ==
    IF comp = << >> THEN << >>
    ELSE (IF Head(comp) = "mp4" THEN <<"m", "p", "4">> ELSE <<Head(comp)>>)
            \o NameChars(Tail(comp))

\* canonical.file_name().map(|s| s.to_string_lossy().to_string())
\*     .unwrap_or_else(|| "unknown".to_string())
\* (a variant that takes the name of the directory the file is in)
FileDisplayNameOfParent(p) == NameChars(Parent(ToStringLossy(p))[Len(p) - 1])
FileDisplayName(p) ==
    LET lossy == ToStringLossy(p)
    IN IF FileNameOf(lossy) = None THEN <<"u", "n", "k", "n", "o", "w", "n">>
       ELSE NameChars(Unwrap(FileNameOf(lossy)))

\* The characters of a MediaHash.
HashChars(h) == <<"0", IF h = "01" THEN "1" ELSE "2">>

\* share_file(path) has been entered.
ShareFileEntered(target) == [ShareEntered(target) EXCEPT !.name = "share_file"]

ShareFileAt == dop.name = "share_file" /\ dop.pc = 1

\* share_file(path): canonicalize, then self.register_file(&canonical).
ShareFileStart(target) ==
    /\ HostReady /\ dop.nshares < MaxShares
    /\ LET canonical == Canonicalize(fs, target)
       IN IF canonical = None
          THEN /\ dop' = ShareErr(ShareFileEntered(target), "Io")
               /\ UNCHANGED <<reg, nregs, hist>>
          ELSE /\ RegisterCall(Unwrap(canonical))
               /\ dop' = [ShareFileEntered(target) EXCEPT
                              !.cur = canonical, !.called = {Unwrap(canonical)}]
    /\ UNCHANGED <<keyfile, node, watchVars, blobs>>
    /\ UNCHANGED notHost

\* register_file has returned: `?`, then the file name, generate_ticket and
\* encode.
ShareFileRegistered ==
    /\ ShareFileAt /\ IsSome(dop.cur) /\ RegReturned
    /\ dop' = IF RegReturnedOk
              THEN ShareOk([dop EXCEPT !.members = <<Unwrap(dop.cur)>>,
                                       !.hashes = <<Unwrap(reg.hash)>>,
                                       !.cur = None],
                           Encode(GenerateTicket(Unwrap(node.cur),
                                      HashChars(Unwrap(reg.hash)),
                                      FileDisplayName(Unwrap(dop.cur)),
                                      wall)))
              ELSE ShareErr([dop EXCEPT !.cur = None], "register")
    /\ UNCHANGED <<keyfile, node, watchVars, daemonVars, hist>>
    /\ UNCHANGED notHost

\* What share_file is called with: files, a path with a `..` and a path
\* nothing is at.
ShareFileTargets == {PA, PHid, PBad, PDots, Missing}

\* What share_folder is called with: the root, the subdirectory, a file's
\* path and a path nothing is at.
ShareTargets == {Root, SubDir, PA, Missing}

\* The daemon: its construction, then share_folder calls, and the
\* register_file calls of both; the files stay as they are.
HostNext ==
    \/ \E fails \in BOOLEAN : HostOpenIndex(fails)
    \/ \E k \in SecretKeys, fail \in NodeFails, partial \in BOOLEAN :
          HostNodeNew(k, fail, partial)
    \/ \E fails \in BOOLEAN : HostWatcherNew(fails)
    \/ \E ioerr \in BOOLEAN : ScanRoot(ioerr)
    \/ \E e \in Dirs, ioerr \in BOOLEAN : ScanEntryDir(e, ioerr)
    \/ \E e \in TreePaths : ScanEntryFile(e)
    \/ ScanRegistered
    \/ ScanReturn
    \/ \E target \in ShareTargets, ioerr \in BOOLEAN :
          ShareFolderStart(target, ioerr)
    \/ \E e \in Dirs : ShareFolderSkip(e)
    \/ \E e \in TreePaths : ShareFolderRegister(e)
    \/ ShareFolderRegistered
    \/ \E storefails \in BOOLEAN : ShareFolderFinish(storefails)
    \/ \E target \in ShareFileTargets : ShareFileStart(target)
    \/ ShareFileRegistered
    \/ RegImport
    \/ \E storefails \in BOOLEAN : RegImportErr(storefails)
    \/ RegMetadata
    \/ RegUpsert
    \/ \E storefails \in BOOLEAN : RegUpsertErr(storefails)

\* The files there are when the daemon is constructed.
EnvInitHost ==
    /\ birthtime = TRUE
    /\ fs \in [TreePaths -> {None, Some(NewFile("c1", 0)), Some(NewFile("c2", 0))}]
    /\ fs[PHid] # Some(NewFile("c2", 0)) /\ fs[PBad] # Some(NewFile("c2", 0))
    /\ now = 0 /\ nfsops = 0 /\ wall = 0
    /\ roots = {<<"w">>}

\* ------------------------------------------------------------------------
\* Specifications.

\* The parts not running.
IdleEnv ==
    /\ fs = [p \in FsPaths |-> None] /\ now = 0 /\ nfsops = 0
    /\ wall = 0 /\ birthtime = TRUE /\ roots = {}

\* No daemon operation running, no ticket in hand.
IdleOps == dop = NoOp /\ codec = NoCodec

\* The index on a fresh store, no call made yet.
InitIndex ==
    /\ IndexInit /\ ApiInit /\ TxnInit /\ IdleEnv /\ WatcherInit
    /\ blobs = {} /\ DaemonIdle /\ NodeInit /\ IdleOps

\* The watcher started on an index that holds the files there are.
InitWatcher ==
    /\ EnvInit /\ roots = {<<"w">>}
    /\ IndexedAtStart /\ ApiInit /\ TxnInit /\ WatcherInit /\ DaemonIdle
    /\ NodeStarted /\ IdleOps

\* The daemon started, the files there are registered.
InitDaemon ==
    /\ EnvInitDaemon
    /\ IndexedAtStart /\ ApiInit /\ TxnInit /\ WatcherInit /\ DaemonIdle
    /\ NodeStarted /\ IdleOps

\* A fresh data directory: no key file, an empty blob store.
InitNode ==
    /\ IndexInit /\ ApiInit /\ TxnInit /\ IdleEnv /\ WatcherInit
    /\ blobs = {} /\ DaemonIdle /\ NodeInit /\ IdleOps

\* One caller at a time.
SpecIndex == InitIndex /\ [][IndexNext]_vars

\* Concurrent callers.
SpecTxn == InitIndex /\ [][TxnNext]_vars

\* The watcher, the filesystem under it and its hashing units.
SpecWatcher == InitWatcher /\ [][WatcherNext]_vars

\* The watcher started with one file under its root.
InitTeardown == InitWatcher /\ IsSome(fs[PA]) /\ fs[PHid] = None

\* The watcher up to its end, the runtime polling the watcher task once it
\* has been woken: a task that can end does end.
SpecWatcherFair ==
    InitTeardown /\ [][WatcherNext]_vars /\ WF_vars(WatcherStop)

\* 100ms pass at the horizon of the clock.  An Instant has no origin that
\* the program can see, only differences of Instants matter: the origin moves
\* on by 100ms, so every Instant kept is one less.  A run of events that is
\* MaxTime old or older stays that old.
TimeWraps ==
    /\ now = MaxTime
    /\ ~("ticker" \in senders /\ now >= nextTick)
    /\ nextTick' = nextTick - 1
    /\ pending' = [p \in FsPaths |->
                     IF IsSome(pending[p]) THEN Some(Unwrap(pending[p]) - 1)
                     ELSE None]
    /\ burst' = [p \in FsPaths |->
                   IF burst[p].n = 0 \/ burst[p].last = 0 THEN burst[p]
                   ELSE [burst[p] EXCEPT !.last = @ - 1]]
    /\ UNCHANGED <<queue, senders, units, nunits, wstate, cancelled, failed,
                   files, hash_index>>
    /\ UNCHANGED envVars
    /\ UNCHANGED notWatch

\* The filesystem operations are counted anew as long as no hashing unit is
\* in flight: a file can be written without end while nothing is dispatched,
\* and the units in flight stay bounded.
Recount ==
    /\ units = {}
    /\ nfsops > 0
    /\ nfsops' = 0
    /\ UNCHANGED <<fs, now, wall, birthtime, files, hash_index>>
    /\ UNCHANGED watchVars
    /\ UNCHANGED notWatch

\* The watcher loop and the ticker, one file written and deleted without
\* end; the hashing units dispatched wait for a thread of the blocking pool.
LivePaths == {PA}
LiveNext ==
    \/ \E p \in LivePaths : \E c \in Contents : FsWrite(p, c)
    \/ \E p \in LivePaths : FsRemove(p)
    \/ AdvanceTime
    \/ TimeWraps
    \/ Recount
    \/ TickerFire
    \/ \E rmfails \in SUBSET {1} : HandleFsEvent(rmfails)
    \/ HandleTick

\* The watcher running for ever, its file written and deleted for ever.
\* Time passes and the ticker task sends every tick that is due: they wait
\* only while the model's queue is full, and the program's channel is
\* unbounded.  The runtime polls the watcher task while its queue holds an
\* event.
SpecWatcherLive ==
    /\ InitTeardown /\ [][LiveNext]_vars
    /\ SF_vars(AdvanceTime \/ TimeWraps)
    /\ SF_vars(TickerFire)
    /\ WF_vars(HandleTick \/ \E rmfails \in SUBSET {1} : HandleFsEvent(rmfails))

\* The watcher loop, the ticker and the hashing units, one file written a few
\* times while time goes on without end; no store or I/O fault, no delete.
RaceNext ==
    \/ \E p \in LivePaths : \E c \in Contents : FsWrite(p, c)
    \/ AdvanceTime
    \/ TimeWraps
    \/ TickerFire
    \/ HandleFsEvent({})
    \/ HandleTick
    \/ \E u \in units : UnitExists(u)
    \/ \E u \in units : UnitStat(u)
    \/ \E u \in units : UnitRead(u)
    \/ \E u \in units : UnitUpsert(u)

\* The hashing units run on the blocking pool beside the watcher loop, each
\* at its own pace.
SpecWatcherRace == InitTeardown /\ [][RaceNext]_vars

\* The daemon's register_file calls, the files changing under them.
SpecDaemon == InitDaemon /\ [][DaemonNext]_vars

\* A Node constructed on a fresh data directory, its blob store empty.
InitColl ==
    /\ IndexInit /\ ApiInit /\ TxnInit /\ IdleEnv /\ WatcherInit
    /\ blobs = {} /\ DaemonIdle /\ NodeStarted /\ IdleOps

\* Node constructions on one data directory.
SpecNode == InitNode /\ [][NodeNext]_vars

\* The collections of a Node, files added to its store in between.
SpecColl == InitColl /\ [][CollNext]_vars

\* Tickets encoded and strings decoded.
SpecCodec == InitNode /\ [][CodecNext]_vars

\* HostDaemon::new entered on a fresh data directory, the watch root holding
\* the files there are.
InitHost ==
    /\ EnvInitHost
    /\ IndexInit /\ ApiInit /\ TxnInit
    /\ queue = << >> /\ senders = {"notify", "ticker"} /\ nextTick = 0
    /\ pending = [p \in FsPaths |-> None] /\ units = {} /\ nunits = 0
    /\ wstate = "unspawned" /\ cancelled = FALSE
    /\ burst = [p \in FsPaths |-> NoBurst] /\ failed = 0
    /\ blobs = {} /\ reg = NoReg /\ nregs = 0
    /\ hist = [p \in TreePaths |-> NoHist]
    /\ NodeInit /\ dop = HostEntered /\ codec = NoCodec

\* The daemon constructed and asked to share folders.
SpecHost == InitHost /\ [][HostNext]_vars

\* Hashing units in flight while the files change under them: one tick has
\* dispatched a unit for a file, for a file whose name is not valid UTF-8 and
\* for the directory /w/d.
UnitPaths == {PA, PBad, SubDir}
InitUnits ==
    /\ EnvInitHost
    /\ IndexedAtStart /\ ApiInit /\ TxnInit
    /\ queue = << >> /\ senders = {"notify", "ticker"} /\ nextTick = 0
    /\ pending = [p \in FsPaths |-> None]
    /\ units = {NewUnit(1, p) : p \in UnitPaths} /\ nunits = 1
    /\ wstate = "running" /\ cancelled = FALSE
    /\ burst = [p \in FsPaths |-> NoBurst] /\ failed = 0
    /\ reg = NoReg /\ nregs = 0
    /\ hist = [p \in TreePaths |-> NoHist]
    /\ NodeStarted /\ IdleOps

UnitsNext ==
    \/ \E p \in {PA, PSub} : \E c \in ContentsFor(p) : FsWrite(p, c)
    \/ \E p \in {PA, PSub} : FsRemove(p)
    \/ \E u \in units : UnitExists(u)
    \/ \E u \in units : UnitStat(u)
    \/ \E u \in units : UnitRead(u)
    \/ \E u \in units : UnitUpsert(u)
    \/ \E u \in units : UnitErr(u)

SpecUnits == InitUnits /\ [][UnitsNext]_vars

\* ------------------------------------------------------------------------
\* C1: immediately after upsert(m) succeeds, get_by_path(m.path) returns
\* exactly m and get_by_hash(m.hash) returns exactly m.
C1_UpsertThenGet ==
    (last.op = "upsert" /\ last.ok) =>
        LET m == Unwrap(last.meta)
        IN /\ GetByPath(files, m.path) = Some(m)
           /\ GetByHash(files, hash_index, m.hash) = Some(m)

\* An upsert has just overwritten a record of the path that held another
\* hash, while the new hash was owned by another path.
C1_Witness ==
    /\ last.op = "upsert" /\ last.ok
    /\ IsSome(last.prior)
    /\ Unwrap(last.prior).hash # Unwrap(last.meta).hash
    /\ \E q \in Paths : q # Unwrap(last.path) /\ IsSome(GetByPath(files, q))
                        /\ Unwrap(GetByPath(files, q)).hash = Unwrap(last.meta).hash

\* C2: for a path that has a record with hash h, immediately after
\* remove(path) succeeds get_by_path(path) and get_by_hash(h) return none.
C2_RemoveThenGet ==
    (last.op = "remove" /\ last.ok /\ IsSome(last.prior)) =>
        /\ GetByPath(files, Unwrap(last.path)) = None
        /\ GetByHash(files, hash_index, Unwrap(last.prior).hash) = None

\* A remove of a path that had a record has just succeeded while another
\* record is still stored.
C2_Witness ==
    /\ last.op = "remove" /\ last.ok /\ IsSome(last.prior)
    /\ \E q \in Paths : IsSome(GetByPath(files, q))

\* C3: in every reachable index state there is at most one record per path,
\* and it is the record of the most recent successful upsert of that path
\* that no remove of that path followed.
RecordsOf(p) == {r \in ListAll(files) : r.path = p}
C3_OneRecordPerPath ==
    \A p \in Paths :
        /\ Cardinality(RecordsOf(p)) <= 1
        /\ \A r \in RecordsOf(p) : lastUpsert[p] = Some(r)

\* A path was upserted twice with different metadata and holds the second.
C3_Witness ==
    /\ last.op = "upsert" /\ last.ok /\ IsSome(last.prior)
    /\ Unwrap(last.prior) # Unwrap(last.meta)
    /\ RecordsOf(Unwrap(last.path)) = {Unwrap(last.meta)}
    /\ Cardinality(ListAll(files)) >= 2

\* C4: upsert and remove change both tables in one atomic transaction.  Under
\* every interleaving of the callers the committed tables, which are what
\* every lookup reads, are the tables with each finished call applied whole:
\* no lookup sees one table write of a call without the other; and the hash
\* remove has read is still the hash of the committed record when it deletes.
C4_AtomicTransactions ==
    /\ Tables(files, hash_index) = shadow
    /\ \A c \in Readers :
          /\ IsSome(call[c].snap) => Unwrap(call[c].snap)[1] = Unwrap(call[c].snap)[2]
          /\ IsSome(call[c].result) =>
                Unwrap(call[c].result) =
                    ReadResult(call[c].op, Unwrap(call[c].snap)[2],
                               Unwrap(call[c].path), Unwrap(call[c].hash))
    /\ \A c \in Writers :
          (call[c].op = "remove" /\ IsSome(call[c].hash_to_remove)) =>
              Unwrap(call[c].hash_to_remove) =
                  HashToRemove(files, Unwrap(call[c].path))

\* A lookup holds its snapshot and a remove has read its record while another
\* caller waits for the write transaction, two calls having committed before.
C4_Witness ==
    /\ \E c \in Readers : IsSome(call[c].snap)
    /\ \E c \in Writers :
          /\ call[c].op = "remove" /\ IsSome(call[c].hash_to_remove)
          /\ IsSome(Unwrap(call[c].hash_to_remove))
          /\ \E d \in Writers \ {c} : AtStep(d, "begin_write")
    /\ \E k \in Keys : IsSome(files[k])

\* C5: N >= 1 create/modify events on one non-hidden path, each handled by
\* the watcher loop less than the 500ms debounce window after the one before
\* and followed by a quiet period in which the loop handles a tick, cause
\* exactly one hashing unit to be dispatched for the path (none while the
\* path is pending, one once a tick has taken it), and at most one upsert.
C5_BurstOneDispatch ==
    \A p \in FsPaths :
        (~StartsWithDot(p) /\ wstate = "running" /\ burst[p].n >= 1) =>
            /\ burst[p].disp = (IF IsSome(pending[p]) THEN 0 ELSE 1)
            /\ burst[p].ups <= burst[p].disp

\* Two rapid events on one path were followed by one dispatch and one upsert.
C5_Witness ==
    /\ burst[PA].n = 2 /\ burst[PA].disp = 1 /\ burst[PA].ups = 1
    /\ wstate = "running"

\* The step in which the watcher loop handles a filesystem event.
HandlesFsEvent ==
    /\ wstate = "running" /\ queue # << >> /\ Head(queue).type = "fs"
    /\ queue' = Tail(queue) /\ senders' = senders

HandlesDelete(p) ==
    HandlesFsEvent /\ Head(queue).kind = "remove" /\ InEvent(Head(queue), p)

UnitIds(us) == {<<u.id, u.path>> : u \in us}

\* A hashing unit is dispatched only for a path that is pending and due.
DispatchOnlyPending ==
    \A u \in units' :
        <<u.id, u.path>> \notin UnitIds(units) =>
            IsSome(pending[u.path]) /\ now >= Unwrap(pending[u.path])

\* C6 as stated: in the step that handles a delete event for a non-hidden
\* path the path leaves the pending map, no hashing unit is dispatched (one is
\* dispatched only for a path pending at a tick), and the path's index record,
\* if any, is removed.
C6_DeleteRemovesRecord ==
    [][/\ DispatchOnlyPending
       /\ \A p \in FsPaths :
            (~StartsWithDot(p) /\ HandlesDelete(p)) =>
                /\ pending'[p] = None
                /\ UnitIds(units') = UnitIds(units)
                /\ GetByPath(files', p) = None]_vars

\* C6 amended: ..., and the path's index record, if any, is removed unless
\* remove_file fails, in which case the failure is logged and the index is
\* left as it was.
C6_DeleteImmediate ==
    [][/\ DispatchOnlyPending
       /\ \A p \in FsPaths :
            (~StartsWithDot(p) /\ HandlesDelete(p)) =>
                /\ pending'[p] = None
                /\ UnitIds(units') = UnitIds(units)
                /\ \/ GetByPath(files', p) = None
                   \/ /\ files' = files /\ hash_index' = hash_index
                      /\ failed' = 1]_vars

\* A delete event was handled for a pending, indexed path: its record is
\* gone and no hashing unit was ever dispatched.
C6_Witness ==
    /\ burst[PA].del = 3 /\ pending[PA] = None
    /\ GetByPath(files, PA) = None
    /\ nunits = 0 /\ wstate = "running"

\* C7: for every path whose file name begins with '.', no filesystem event
\* makes the watcher put the path in the pending map, dispatch a hashing unit
\* for it, or upsert or remove an index record for it.
C7_HiddenIgnored ==
    [][\A p \in FsPaths :
          StartsWithDot(p) =>
              /\ pending'[p] = None
              /\ \A u \in units' : u.path # p
              /\ files'[ToStringLossy(p)] = files[ToStringLossy(p)]]_vars

\* C8: a failure of a hashing unit or of an index remove on a delete event
\* never ends the watcher loop: the loop ends only when its queue is closed
\* or the shutdown token is cancelled, and while it runs it takes the next
\* event or tick from its queue.
C8_FailuresDoNotStop ==
    /\ [][(wstate = "running" /\ wstate' = "stopped") =>
             (cancelled \/ QueueClosed)]_vars
    /\ []((wstate = "running" /\ queue # << >>) =>
             ENABLED (HandleTick \/ \E r \in SUBSET {1} : HandleFsEvent(r)))

\* A failure has happened, the loop has handled an event or a tick since,
\* and it still runs, the shutdown token not cancelled.
C8_Witness ==
    failed = 2 /\ wstate = "running" /\ ~cancelled

\* The stages of the latest register_file call that have ended, in order.
StageAt(i) == reg.trace[i][1]
EndedOk(i) == reg.trace[i][2] = "ok"

\* C9: in every execution of register(path) the Node import of the file has
\* completed and returned the hash before the Index upsert of the path
\* starts; if the Node import fails, that register performs no Index write.
C9_ImportBeforeUpsert ==
    /\ RegAt("upsert") =>
          /\ IsSome(reg.hash)
          /\ \E j \in DOMAIN reg.trace : StageAt(j) = "import" /\ EndedOk(j)
    /\ \A i \in DOMAIN reg.trace :
          StageAt(i) = "upsert" =>
              \E j \in 1..(i - 1) : StageAt(j) = "import" /\ EndedOk(j)
    /\ \A i \in DOMAIN reg.trace :
          (StageAt(i) = "import" /\ ~EndedOk(i)) =>
              /\ reg.pc = 0
              /\ \A j \in DOMAIN reg.trace : StageAt(j) # "upsert"
              /\ Some(Tables(files, hash_index)) = reg.tables0

\* A register has failed in its import, the index as it was, after an
\* earlier register went through import, metadata and upsert and wrote the
\* record of its path.
C9_Witness ==
    /\ reg.trace = << <<"import", "err">> >>
    /\ nregs >= 2
    /\ \E p \in RegPaths : hist[p].n >= 1 /\ IsSome(GetByPath(files, p))

\* C10: registering the same path twice while its content is unchanged
\* returns the same content hash both times, and the second registration
\* leaves the blob store with the same set of entries and the Index with the
\* same record for that path as after the first.
C10_ReRegisterSame ==
    \A p \in RegPaths :
        hist[p].n = 2 =>
            /\ Unwrap(hist[p].second).hash = Unwrap(hist[p].first).hash
            /\ Unwrap(hist[p].second).blobs = Unwrap(hist[p].first).blobs
            /\ Unwrap(hist[p].second).rec = Unwrap(hist[p].first).rec

\* ------------------------------------------------------------------------
\* C16: across sequential Node constructions on one data directory the key is
\* generated and written by one construction only, one that finds no key
\* file; a construction that finds the key file loads the key stored in it;
\* all constructions that return a Node report the same node identifier.
C16_OneIdentity ==
    /\ Cardinality(node.ids) <= 1
    /\ node.writes <= 1
    /\ IsSome(node.last) =>
          LET r == Unwrap(node.last)
          IN /\ r.generated => r.before = None
             /\ r.wrote => r.generated
             /\ IsSome(r.before) =>
                   /\ r.keyfile = r.before
                   /\ IsSome(r.id) =>
                         r.id = Some(EndpointId(Unwrap(HexDecodeKey(Unwrap(r.before)))))

\* A third construction loads the key that an earlier one has written, after
\* a construction that failed.
C16_Witness ==
    /\ node.n >= 3 /\ node.writes = 1 /\ IsSome(node.cur)
    /\ IsSome(node.last) /\ ~Unwrap(node.last).generated
    /\ IsSome(Unwrap(node.last).before)

\* ------------------------------------------------------------------------
\* C17: every create_collection call over the same ordered list of
\* well-formed hashes returns the collection hash that the first one
\* returned, whatever the store holds, and all the calls over one list add
\* at most one entry to the store.
C17_SameListSameHash ==
    /\ \A l \in HashLists : coll.added[l] <= 1
    /\ IsSome(coll.last) /\ Unwrap(coll.last).result[1] = "Ok" =>
          LET c == Unwrap(coll.last)
          IN /\ coll.first[c.hashes] = Some(c.result[2])
             /\ c.repeat => c.after = c.before

\* A list is given again when the store has since taken a file and another
\* collection.
C17_Witness ==
    /\ IsSome(coll.last)
    /\ LET c == Unwrap(coll.last)
       IN /\ c.repeat /\ c.result[1] = "Ok" /\ Len(c.hashes) = 2
          /\ c.hashes[1] # c.hashes[2]
          /\ Cardinality(c.before) >= 3

\* ------------------------------------------------------------------------
\* C18: a create_collection call whose list holds a hash that is no
\* well-formed digest fails with an invalid-hash error and leaves the blob
\* store as it was, also when the members before it are well formed.
C18_IllFormedStoresNothing ==
    IsSome(coll.last) =>
        LET c == Unwrap(coll.last)
        IN (\E i \in DOMAIN c.hashes : HashFromStr(c.hashes[i]) = None) =>
              /\ c.result = <<"Err", "InvalidHash">>
              /\ c.after = c.before

\* The second member is ill formed, the first well formed.
C18_Witness ==
    /\ IsSome(coll.last)
    /\ LET c == Unwrap(coll.last)
       IN /\ Len(c.hashes) = 2
          /\ IsSome(HashFromStr(c.hashes[1]))
          /\ HashFromStr(c.hashes[2]) = None
          /\ c.result[1] = "Err"
          /\ c.before # {}

\* ------------------------------------------------------------------------
\* C19: decode(encode(t)) succeeds and returns a ticket equal to t in its
\* five fields; decode of a string that is not base64, or whose bytes are
\* not the JSON text of a ticket, fails with an invalid-hash error.
C19_RoundTrip ==
    IsSome(codec.out) =>
        LET out == Unwrap(codec.out)
            t == Unwrap(codec.t)
        IN IF codec.valid
           THEN /\ out[1] = "Ok"
                /\ out[2].node_id = t.node_id
                /\ out[2].relay_url = t.relay_url
                /\ out[2].hash = t.hash
                /\ out[2].name = t.name
                /\ out[2].created_at = t.created_at
           ELSE out[1] = "Err" /\ out[2] = "InvalidHash"

\* A ticket whose name needs escaping and whose timestamp has two digits
\* has made the round trip.
C19_Witness ==
    /\ codec.valid /\ IsSome(codec.out)
    /\ Unwrap(codec.out)[1] = "Ok"
    /\ Unwrap(codec.t).name = <<"\\", "a">>
    /\ Unwrap(codec.t).hash = <<"\"">>
    /\ Unwrap(codec.t).created_at = 10

\* ------------------------------------------------------------------------
\* The immediate regular files of a directory.
ImmediateFiles(dir) == {p \in TreePaths : IsSome(fs[p]) /\ Parent(p) = dir}

\* share_folder has returned.
ShareReturned ==
    dop.name = "share_folder" /\ dop.pc = 0 /\ IsSome(dop.result)

\* p has its record in the Index and its content in the blob store.
InBothStores(p) ==
    /\ IsSome(GetByPath(files, p))
    /\ Unwrap(GetByPath(files, p)).path = p
    /\ Unwrap(GetByPath(files, p)).hash = ToHex(Blake3(Unwrap(fs[p]).content))
    /\ Blake3(Unwrap(fs[p]).content) \in blobs

\* The digests of the members, in the order they were enumerated.
MemberDigests ==
    [i \in DOMAIN dop.members |-> Blake3(Unwrap(fs[dop.members[i]]).content)]

\* share_folder has registered exactly the immediate files of its target
\* and returned a ticket for the manifest of their digests.
SharedExactly ==
    LET target == Unwrap(dop.target)
        n == Cardinality(ImmediateFiles(target))
        manifest == ManifestBytes(MemberDigests)
        out == Decode(Unwrap(dop.result)[2])
    IN /\ dop.called = ImmediateFiles(target)
       /\ PSub \in dop.called => target = SubDir
       /\ Len(dop.members) = n
       /\ {dop.members[i] : i \in DOMAIN dop.members} = ImmediateFiles(target)
       /\ \A p \in ImmediateFiles(target) : InBothStores(p)
       /\ Len(manifest) = n * DigestLen
       /\ Blake3Bytes(manifest) \in blobs
       /\ out[1] = "Ok"
       /\ out[2].hash = HexChars(Blake3Bytes(manifest))

\* The target is a directory with at least one immediate regular file.
ShareOfFiles ==
    /\ ShareReturned
    /\ IsDirAt(fs, Unwrap(dop.target))
    /\ ImmediateFiles(Unwrap(dop.target)) # {}

C12_ShareFolderRefuses ==
    ShareReturned /\ ~ShareOfFiles =>
        /\ dop.result = Some(<<"Err", "Io">>)
        /\ dop.before = Some(Stores)
        /\ dop.called = {}

\* The root holds a subdirectory with a file and no file of its own.
C12_Witness ==
    /\ ShareReturned /\ dop.target = Some(Root)
    /\ ImmediateFiles(Root) = {} /\ IsSome(fs[PSub])
    /\ blobs # {} /\ ~dop.readdir

\* ------------------------------------------------------------------------
\* The scan has ended with an error.
ScanFailed == Len(dop.trace) = 4 /\ dop.trace[4][2] = "err"

\* new has returned the daemon and nothing has been asked of it yet.
JustConstructed == dop.name = "new" /\ dop.pc = 0 /\ dop.running

\* C13: a registration that fails does not end the startup scan: the scan
\* ends with an error only when a directory cannot be read; when it is over
\* every file under the root, at any depth, has been visited, those whose
\* registration succeeded are in the Index and in the blob store, and new
\* returns the daemon.
C13_ScanSkipsFailures ==
    /\ ScanFailed => dop.readdir
    /\ \A p \in TreePaths : dop.seen[p] = "ok" => IsSome(fs[p]) /\ InBothStores(p)
    /\ JustConstructed =>
          /\ \A p \in TreePaths : IsSome(fs[p]) <=> dop.seen[p] # "no"
          /\ \E j \in DOMAIN dop.trace : dop.trace[j] = <<"scan", "ok">>

\* The registration of one file has failed, those of a file beside it and
\* of a file in the subdirectory have succeeded, and the daemon is there.
C13_Witness ==
    /\ JustConstructed
    /\ dop.seen[PBad] = "err" /\ dop.seen[PA] = "ok" /\ dop.seen[PSub] = "ok"

\* ------------------------------------------------------------------------
\* C20: new runs its stages in the order Index, Node, Watcher, scan; a stage
\* runs only when those before it have succeeded; a stage that fails makes
\* new return the error and no daemon; the daemon is returned only when the
\* scan has run to its end.
C20_StagesInOrder ==
    /\ \A i \in DOMAIN dop.trace :
          /\ i <= Len(HostProgram) /\ dop.trace[i][1] = HostProgram[i]
          /\ i < Len(dop.trace) => dop.trace[i][2] = "ok"
    /\ (\E i \in DOMAIN dop.trace : dop.trace[i][2] = "err") =>
          ~dop.running /\ dop.pc = 0 /\ Unwrap(dop.result)[1] = "Err"
    /\ dop.running =>
          /\ dop.trace = [i \in DOMAIN HostProgram |-> <<HostProgram[i], "ok">>]
          /\ dop.stack = << >>
    /\ JustConstructed => reg.pc = 0 /\ dop.cur = None
    /\ <<"index", "ok">> \notin {dop.trace[i] : i \in DOMAIN dop.trace} =>
          node = NoNode /\ keyfile = None
    /\ <<"node", "ok">> \notin {dop.trace[i] : i \in DOMAIN dop.trace} =>
          wstate = "unspawned"
    /\ <<"watcher", "ok">> \notin {dop.trace[i] : i \in DOMAIN dop.trace} =>
          nregs = 0 /\ blobs = {} /\ dop.stack = << >>

\* The Node could not be constructed: the Index was opened before it, no
\* watcher was spawned, no file scanned.
C20_Witness ==
    /\ dop.trace = << <<"index", "ok">>, <<"node", "err">> >>
    /\ dop.pc = 0 /\ ~dop.running
    /\ \E p \in TreePaths : IsSome(fs[p])

\* ------------------------------------------------------------------------
\* A step that handles a filesystem event or a tick, or dispatches a unit.
LoopActs ==
    \/ queue' # queue /\ queue' # << >>
    \/ pending' # pending
    \/ nunits' # nunits
    \/ \E u \in units' : u.id \notin {v.id : v \in units}
    \/ \E p \in FsPaths :
          \/ burst'[p].n # burst[p].n
          \/ burst'[p].disp # burst[p].disp
          \/ burst'[p].del # burst[p].del

\* C14: the teardown cancels the token and does not wait: the step leaves
\* the watcher task as it is; once the token is cancelled the task
\* eventually ends; once it has ended it stays so, and no step handles an
\* event or a tick or dispatches a hashing unit.
C14_TeardownStopsWatcher ==
    /\ [][~cancelled /\ cancelled' =>
             wstate' = wstate /\ units' = units /\ queue' = queue]_vars
    /\ (cancelled ~> wstate = "stopped")
    /\ [][wstate = "stopped" => wstate' = "stopped" /\ ~LoopActs]_vars

\* The token was cancelled while an event waited in the queue and a path
\* was pending; the task has ended.
C14_Witness ==
    /\ cancelled /\ wstate = "stopped"
    /\ \E p \in FsPaths : burst[p].n >= 1 /\ burst[p].disp = 0 /\ IsSome(fs[p])
    /\ nfsops >= 2

\* ------------------------------------------------------------------------
\* A step every unit in flight can take.
UnitCanStep(u) ==
    \/ ENABLED UnitExists(u)
    \/ ENABLED UnitStat(u)
    \/ ENABLED UnitRead(u)
    \/ ENABLED UnitUpsert(u)
    \/ ENABLED UnitErr(u)

\* C15: the cancellation and the end of the watcher task leave the hashing
\* units in flight as they are; a unit can always go on, whatever the token
\* and the task, and one that has hashed its file can upsert its record
\* when the teardown has returned and the task has ended.
C15_UnitsOutliveWatcher ==
    /\ [][cancelled' # cancelled \/ wstate' # wstate => units' = units]_vars
    /\ [](\A u \in units : UnitCanStep(u))
    /\ [](\A u \in units :
             u.pc = "upsert" /\ IsSome(BincodeEncode(UnitMeta(u))) =>
                 ENABLED UnitUpsert(u))

\* The token is cancelled and the task has ended; a unit dispatched before
\* has hashed its file and is about to upsert a record the Index lacks.
C15_Witness ==
    /\ cancelled /\ wstate = "stopped"
    /\ \E u \in units :
          /\ u.pc = "upsert" /\ IsSome(BincodeEncode(UnitMeta(u)))
          /\ GetByPath(files, u.path) # Some(UnitMeta(u))

\* ------------------------------------------------------------------------
\* The step is a successful upsert_file / remove_file of the one caller.
UpsertReturnsOk == last'.op = "upsert" /\ last'.ok /\ last' # last
RemoveReturnsOk == last'.op = "remove" /\ last'.ok

\* C26: after upsert of a path with hash h1 followed by upsert of the same
\* path with a different hash h2, the hash_index entry for h1 is still there
\* and still names the path, so get_by_hash(h1) returns the path's current
\* record, whose hash is h2.
C26_OldHashDangles ==
    [][(/\ last.op = "upsert" /\ last.ok
        /\ UpsertReturnsOk
        /\ last'.path = last.path
        /\ Unwrap(last'.meta).hash # Unwrap(last.meta).hash)
       => LET p == Unwrap(last.path)
              h1 == Unwrap(last.meta).hash
              h2 == Unwrap(last'.meta).hash
          IN /\ hash_index'[h1] = Some(ToStringLossy(p))
             /\ IsSome(GetByHash(files', hash_index', h1))
             /\ Unwrap(GetByHash(files', hash_index', h1)) = Unwrap(last'.meta)
             /\ Unwrap(GetByHash(files', hash_index', h1)).hash = h2
             /\ GetByHash(files', hash_index', h1) = GetByPath(files', p)]_vars

\* The second of two upserts of one path has returned: the record it
\* replaced had the other hash, and a lookup by that hash finds the new one.
C26_Witness ==
    /\ last.op = "upsert" /\ last.ok /\ IsSome(last.prior)
    /\ Unwrap(last.prior).hash # Unwrap(last.meta).hash
    /\ hash_index[Unwrap(last.prior).hash] = Some(ToStringLossy(Unwrap(last.path)))
    /\ GetByHash(files, hash_index, Unwrap(last.prior).hash) = last.meta

\* ------------------------------------------------------------------------
\* C27: remove(path) for a path that has no record in the files table
\* succeeds and leaves the files table and the hash_index table exactly as
\* they were.
C27_RemoveAbsentNoOp ==
    /\ [](\A p \in IndexPaths :
            files[ToStringLossy(p)] = None => ENABLED RemoveOk(p))
    /\ [][(RemoveReturnsOk /\ files[ToStringLossy(Unwrap(last'.path))] = None)
          => (files' = files /\ hash_index' = hash_index)]_vars

\* A remove of a path without a record has returned Ok while the reverse
\* index still holds an entry that names the path (left by an earlier hash
\* of it) and another path has a record.
C27_Witness ==
    /\ last.op = "remove" /\ last.ok /\ last.prior = None
    /\ \E h \in Hashes : hash_index[h] = Some(ToStringLossy(Unwrap(last.path)))
    /\ \E k \in Keys : IsSome(files[k])

\* ------------------------------------------------------------------------
\* C28: whenever get_by_hash(h) returns a record, in any state reachable by
\* upserts and removes, the returned record's content hash equals h.
C28_LookupByHashSound ==
    \A h \in Hashes :
        LET r == GetByHash(files, hash_index, h)
        IN IsSome(r) => Unwrap(r).hash = h

\* ------------------------------------------------------------------------
\* C29: remove(p) affects only path p: for every other path q with a record
\* of hash h, get_by_path(q) and get_by_hash(h) return after remove(p) what
\* they returned before, also when p and q hold the same content.
C29_RemoveTouchesOnlyPath ==
    [][RemoveReturnsOk =>
        \A q \in IndexPaths \ {Unwrap(last'.path)} :
            IsSome(GetByPath(files, q)) =>
                LET h == Unwrap(GetByPath(files, q)).hash
                IN /\ GetByPath(files', q) = GetByPath(files, q)
                   /\ GetByHash(files', hash_index', h)
                        = GetByHash(files, hash_index, h)]_vars

\* ------------------------------------------------------------------------
\* The hashing unit takes its first step, the re-check of its path.
UnitStarts(u) == u \in units /\ u.pc = "exists" /\ u \notin units'

\* C25: a hashing unit that finds its path missing, or not a regular file,
\* when it starts returns success without hashing and leaves the index
\* unchanged: it neither upserts nor removes a record and reports no error.
C25_MissingPathSkipped ==
    [][\A u \in units :
          (UnitStarts(u) /\ ~IsRegularFile(fs, u.path)) =>
              /\ \A v \in units' : <<v.id, v.path>> # <<u.id, u.path>>
              /\ files' = files /\ hash_index' = hash_index
              /\ failed' = failed]_vars

\* The units of the directory /w/d and of the file /w/a.mp4, which was
\* deleted before its unit started, have ended: no error was reported, the
\* unit of the file has not upserted and its record is the one of the start.
C25_Witness ==
    /\ \A u \in units : u.path \notin {SubDir, PA}
    /\ fs[PA] = None /\ failed = 0 /\ burst[PA].ups = 0
    /\ IsSome(GetByPath(files, PA))
    /\ IsSome(fs[PSub])

\* ------------------------------------------------------------------------
\* The hashing units a step dispatches, and the step in which the loop
\* handles a tick.
Dispatched == {u \in units' : <<u.id, u.path>> \notin UnitIds(units)}
HandlesTick ==
    /\ wstate = "running" /\ queue # << >> /\ Head(queue).type = "tick"
    /\ queue' = Tail(queue) /\ senders' = senders

\* C23: for one path only the most recent pending deadline is honoured: the
\* pending map holds at most one deadline per path, the one set by the most
\* recent create/modify event handled for it, and a hashing unit for the
\* path is never dispatched at a tick earlier than 500ms after that event.
C23_LatestDeadlineOnly ==
    /\ [](\A p \in FsPaths :
            IsSome(pending[p]) =>
                /\ burst[p].n >= 1
                /\ pending[p] = Some(burst[p].last + Debounce))
    /\ [][\A u \in Dispatched :
            /\ HandlesTick
            /\ burst[u.path].n >= 1
            /\ now >= burst[u.path].last + Debounce]_vars

\* A hashing unit has just been dispatched for a path that had two events
\* less than 500ms apart, the second after time 0: the tick that took it
\* came 500ms or more after the second.
C23_Witness ==
    /\ burst[PA].n = 2 /\ burst[PA].last > 0 /\ burst[PA].disp = 1
    /\ \E u \in units : u.path = PA /\ u.pc = "exists" /\ u.cur
    /\ now >= burst[PA].last + Debounce
    /\ wstate = "running"

\* ------------------------------------------------------------------------
\* The step in which the loop handles a create or modify event for p.
HandlesWrite(p) ==
    /\ HandlesFsEvent /\ Head(queue).kind \in {"create", "modify"}
    /\ InEvent(Head(queue), p)

\* What a tick does, and that nothing else dispatches or takes a path out
\* of the pending map: on each tick every pending path whose deadline is at
\* or before the tick time leaves the pending map and is dispatched to
\* exactly one hashing unit, and the paths whose deadline is later stay
\* pending.
TickDispatchesDue ==
    [][/\ HandlesTick =>
            \A p \in FsPaths :
                IF IsSome(pending[p]) /\ Unwrap(pending[p]) <= now
                THEN /\ pending'[p] = None
                     /\ Cardinality({u \in Dispatched : u.path = p}) = 1
                ELSE /\ pending'[p] = pending[p]
                     /\ \A u \in Dispatched : u.path # p
       /\ Dispatched # {} => HandlesTick
       /\ \A p \in FsPaths :
            (IsSome(pending[p]) /\ pending'[p] = None) =>
                \/ \E u \in Dispatched : u.path = p
                \/ HandlesDelete(p)]_vars

\* C24 as stated: ...; consequently, while the watcher keeps running and
\* ticks keep arriving, every path put in the pending map is eventually
\* dispatched unless a delete event for it is handled first.
C24_PendingDispatched ==
    /\ TickDispatchesDue
    /\ \A p \in LivePaths : IsSome(pending[p]) ~> (pending[p] = None)

\* C24 amended: ...; consequently, while the watcher keeps running and ticks
\* keep arriving, every path put in the pending map is eventually dispatched
\* unless a delete event for it is handled first, provided that from some
\* time on no create or modify event is handled for the path.
C24_PendingDispatchedWhenQuiet ==
    /\ TickDispatchesDue
    /\ \A p \in LivePaths :
          <>[][~HandlesWrite(p)]_vars =>
              (IsSome(pending[p]) ~> (pending[p] = None))

\* A path has been dispatched to one hashing unit by a tick and is pending
\* again after a later event, its deadline still to come.
C24_Witness ==
    /\ Cardinality({u \in units : u.path = PA}) = 1
    /\ burst[PA].n = 1 /\ burst[PA].disp = 0 /\ IsSome(pending[PA])
    /\ Unwrap(pending[PA]) > now
    /\ wstate = "running"

\* ------------------------------------------------------------------------
\* C30: at any time at most one hashing unit is in flight for a given path:
\* a path is not dispatched again while an earlier hashing unit for it has
\* not yet finished its upsert.
C30_OneUnitPerPath ==
    \A p \in FsPaths : Cardinality({u \in units : u.path = p}) <= 1


\* ------------------------------------------------------------------------
\* share_file has returned.
ShareFileReturned ==
    dop.name = "share_file" /\ dop.pc = 0 /\ IsSome(dop.result)

\* C21: when share_file(path) succeeds the file is in the blob store, the
\* Index has its record under the canonical path, and the ticket returned
\* decodes to one whose hash is the record's hash, whose name is the file's
\* name and whose node id is the node's identifier.
C21_ShareFileTicket ==
    ShareFileReturned /\ Unwrap(dop.result)[1] = "Ok" =>
        LET c == Canonicalize(fs, Unwrap(dop.target))
            out == Decode(Unwrap(dop.result)[2])
        IN /\ IsSome(c)
           /\ \A i \in DOMAIN Unwrap(c) : Unwrap(c)[i] # DotDot
           /\ InBothStores(Unwrap(c))
           /\ out[1] = "Ok"
           /\ out[2].hash = HashChars(Unwrap(GetByPath(files, Unwrap(c))).hash)
           /\ out[2].name = NameChars(Unwrap(c)[Len(Unwrap(c))])
           /\ out[2].node_id = NodeIdString(Unwrap(node.cur))

\* The file was named through a `..`: /w/d/../a.mp4 is shared as /w/a.mp4.
C21_Witness ==
    /\ ShareFileReturned /\ Unwrap(dop.result)[1] = "Ok"
    /\ dop.target = Some(PDots)
    /\ IsSome(GetByPath(files, PA))

\* ------------------------------------------------------------------------
\* The registration share_folder asked for has returned an error.
ShareRegistrationFailed ==
    /\ dop.name = "share_folder" /\ RegReturned /\ ~RegReturnedOk
    /\ IsSome(reg.path) /\ Unwrap(reg.path) \in dop.called

\* C22: when the registration of a file fails during share_folder, the
\* operation fails with that error: no file after it is registered, no
\* manifest is created and no ticket is returned.
C22_ShareFolderPropagates ==
    ShareRegistrationFailed =>
        /\ IF dop.pc = 1 THEN dop.cur = reg.path
           ELSE dop.result = Some(<<"Err", "register">>)
        /\ dop.todo \cap dop.called = {}
        /\ Cardinality(dop.called) = Len(dop.members) + 1
        /\ blobs \ Unwrap(dop.before).blobs
              \subseteq {Blake3(Unwrap(fs[p]).content) : p \in dop.called}

\* A file was registered, the next one failed, and a regular file was still
\* to come when share_folder returned.
C22_Witness ==
    /\ ShareRegistrationFailed /\ dop.pc = 0
    /\ dop.members # << >>
    /\ \E p \in dop.todo : IsFileAt(fs, p)



\* ------------------------------------------------------------------------
\* C34: register(path) is all-or-nothing across the two stores: whenever it
\* fails at any stage (import, metadata or upsert), neither the blob store
\* nor the Index has been changed by it.
C34_RegisterAllOrNothing ==
    RegReturned /\ ~RegReturnedOk =>
        /\ Some(blobs) = reg.blobs0
        /\ Some(Tables(files, hash_index)) = reg.tables0



\* ------------------------------------------------------------------------
\* The records the Index holds.
IndexRecords == {BincodeDecode(Unwrap(files[k])) : k \in {x \in Keys : IsSome(files[x])}}

\* C33: the two stores stay consistent: in every reachable state of the
\* running daemon, every content hash an Index record refers to is the hash
\* of an entry that has been imported into the Node's blob store.
C33_StoresConsistent ==
    \A r \in IndexRecords : \E d \in blobs : HashToString(d) = r.hash



\* ------------------------------------------------------------------------
\* A delete event for p has been handled and no create or modify event for
\* it since.
DeleteHandledLast(b, p) == b[p].del > 0

\* C32: a deleted file does not reappear in the Index: when a delete event
\* for a path has been handled, leaving no record of it, and no create or
\* modify event for the path is handled afterwards, the Index holds no
\* record for the path once all hashing units have finished, also when a
\* hashing unit for the path was in flight at the time of the delete.
C32_DeletedStaysDeleted ==
    [][\A p \in FsPaths :
          (/\ DeleteHandledLast(burst, p) /\ DeleteHandledLast(burst', p)
           /\ GetByPath(files, p) = None
           /\ units' = {})
          => GetByPath(files', p) = None]_vars



\* ------------------------------------------------------------------------
\* The events for p have stopped and the work they caused is done: no event
\* for p waits in the channel, p is not pending, no hashing unit is in flight.
Settled(p) ==
    /\ wstate = "running"
    /\ \A i \in DOMAIN queue : queue[i].type = "fs" => ~InEvent(queue[i], p)
    /\ pending[p] = None
    /\ units = {}

\* C31: no update is lost: once the filesystem events for a non-hidden path
\* have stopped and every dispatched hashing unit has finished, the Index
\* record for the path, if the file exists, carries the hash and the size of
\* the file's final content, under every interleaving of hashing units and
\* later events for the path.
C31_NoUpdateLost ==
    \A p \in LivePaths :
        (~ShouldIgnore(p) /\ Settled(p) /\ IsSome(fs[p])) =>
            /\ IsSome(GetByPath(files, p))
            /\ Unwrap(GetByPath(files, p)).hash
                  = ToHex(Blake3(Unwrap(fs[p]).content))
            /\ Unwrap(GetByPath(files, p)).size = SizeOf(Unwrap(fs[p]).content)


============================================================================
